---- MODULE Spec2Model ----
(***************************************************************************)
(* A model of dynamodb-ts-model: the optimistic-concurrency helper         *)
(* DynamoModel.atomicAction, the single-item model operations, the         *)
(* scan/query iterators, the batch statements and the write transaction,   *)
(* each running against a store that answers as DynamoDB does.             *)
(***************************************************************************)
EXTENDS Integers, Sequences, FiniteSets, TLC

VARIABLES
    scenario,     \* which object of the library the behaviour exercises
    \* ---- atomicAction (DynamoModel.ts 262-291) and the stored item ----
    store,        \* the item stored under the one key the calls share
    nextVer,      \* the next value the condition attribute takes on a write
    extWrites,    \* writes to the key made by other clients so far
    pc,           \* per call: its position in atomicAction
    maxAttemptsParam, \* per call: params.maxAttempts (<< >> when omitted)
    attempt,      \* per call: the loop variable
    fetched,      \* per call: the item the get of this attempt returned
    thrown,       \* per call: the error the call failed with (NoError if none)
    fetches,      \* per call: number of get requests sent
    invocations,  \* per call: number of times the action was invoked
    delays,       \* per call: number of delays entered
    firstSeen,    \* per call: condition attribute value seen by the first get
    okAttempt,    \* per call: the attempt whose write succeeded (-1 if none)
    okFetched,    \* per call: condition value fetched in the successful attempt
    okWrote,      \* per call: condition value its successful write stored
    raised,       \* per call: the error other than a conditional-check failure
                  \*   that its get or its action rejected with (NoError if none)
    countsAtRaise, \* per call: <<fetches, invocations, delays>> when that happened
    concurrent,   \* a call was made while the other call was in progress
    \* ---- the write in progress, shared by every kind of write ----
    reply,        \* the store's answer to the current request:
                  \*   "none" (nothing sent), "pending", "ok" or "failed"
    fired,        \* trigger invocations made for the current request, in order
    requestsSent, \* requests the operation in progress has sent to the store
    rejection,    \* << >> or <<the error the store rejected its request with>>
    failure,      \* << >> or <<the error the operation threw>>
    \* ---- DynamoWriteTransaction (DynamoTransaction.ts 114-182) ----
    txItems,      \* this.items: the accumulated TransactItems
    txModelMap,   \* this.modelMap: table name -> model
    txErr,        \* this.err
    txSent,       \* the TransactItems of the last commit request
    txVerdict,    \* the cancellation reasons of the store's last answer
    txResult,     \* how the last commit() settled: "none", "resolved", "rejected"
    txThrown,     \* the error the last commit() rejected with
    txCommits,    \* number of commit() calls made
    \* ---- items handed to the caller by the operation in progress ----
    returned,     \* sequence of [model, item]; item.conv lists the converter
                  \*   invocations made on the item by this operation
    \* ---- DynamoBatchWriteStatement (DynamoBatch.ts 125-210) ----
    bwRequestMap, \* this.requestMap: table name -> requests, in insertion order
    bwModelMap,   \* this.modelMap: table name -> model
    bwSent,       \* the RequestItems of the last execute request
    bwUnprocessed, \* the UnprocessedItems of the store's last answer
    bwItems,      \* the items of the last execute() result
    bwDone,       \* the done flag of the last execute() result
    bwFresh,      \* nothing was added to the statement since its last answer
    bwOks,        \* number of execute() calls the store answered
    bwExecs,      \* number of execute() calls made
    bwHistory,    \* << >>, or, in the behaviours that record it, over the
                  \*   statement's life: the requests added, the trigger
                  \*   invocations made and the result items, each in order
    \* ---- DynamoBatchGetStatement (DynamoBatch.ts 64-123) ----
    bgRequestMap, \* this.requestMap: table name -> Keys, in insertion order
    bgModelMap,   \* this.modelMap: table name -> model
    bgDone,       \* the done flag of the last execute() result
    bgExecs,      \* number of execute() calls made
    \* ---- one DynamoModel operation (DynamoModel.ts 120-242) ----
    opKind,       \* "none", "get", "scan", "query", "put", "update", "delete"
    opModel,      \* the model the operation was called on
    opArg,        \* params.item (put) or params.key (the others)
    opAnswer,     \* what the store answered: << >> or <<item>> (get, update,
                  \*   delete), <<page>> (scan, query), << >> otherwise
    opConvCalls,  \* the converter invocations the operation made, in order
    opToken,      \* nextPageToken of the scan/query result
    opResult,     \* how the call settled: "none", "resolved", "rejected"
    opThrown,     \* the error the call rejected with
    \* ---- scanIterator / queryIterator (DynamoModel.ts 151-163, 185-197) ----
    itKind,       \* "scan" or "query"
    itModel,      \* the model iterated
    itPages,      \* the pages the store holds for the request
    itPc,         \* "start", "waiting", "suspended", "done", "threw"
    itParams,     \* the caller's params object
    itToken,      \* p.pageToken
    itNextToken,  \* nextPageToken of the page being yielded
    itBuffer,     \* items of the current page not yet yielded
    itRequests,   \* the page token carried by each request sent, in order
    itThrown,     \* the error the iterator threw
    \* ---- one call of a function of the library ----
    fnArgs,       \* the arguments of the call
    fnResult,     \* << >> before the call, <<value>> once it has returned
    \* ---- one DynamoModelBuilder and the models built from it ----
    bdHeap,       \* the ModelParams objects that exist, by reference
    bdModels,     \* the models built: [via: build or class, params: the reference
                  \*   the model holds, definedAs: what that object held when the
                  \*   model was built]
    bdCalls,      \* number of with* calls made on the builder
    \* ---- table metrics (DynamoWrapper.ts 20-76, DynamoClient.ts 107-116) ----
    mtMetrics,    \* client.tableMetrics: per table << >> or <<its TableMetrics>>
    mtOps,        \* per command: "idle", "pending", "ok" or "failed"
    mtReported,   \* per table: units the outputs received since the last
                  \*   clearTableMetrics() reported, summed
    mtClears,     \* number of clearTableMetrics() calls
    mtMaxPending, \* the most commands that were awaiting the store at once
    \* ---- batchResultIterator (DynamoBatch.ts 24-40) ----
    biPc,         \* "none", "start", "executing", "suspended", "delaying",
                  \*   "done", "threw"
    biDelay,      \* the variable delay
    biRounds,     \* per execute() call answered: [items, done]
    biBuffer,     \* items of the current round not yet yielded
    biYielded,    \* the items yielded, in order
    biWaits       \* per delay entered: [bound, drawn], the value of delay and
                  \*   the time drawn for the timer

atomicVars == <<store, nextVer, extWrites, pc, maxAttemptsParam, attempt,
                fetched, thrown, fetches, invocations, delays, firstSeen,
                okAttempt, okFetched, okWrote, raised, countsAtRaise,
                concurrent>>

\* What the operation in progress sent and how it failed.
callVars == <<requestsSent, rejection, failure>>

writeVars == <<reply, fired, callVars>>

txVars == <<txItems, txModelMap, txErr, txSent, txVerdict, txResult, txThrown, txCommits>>

readVars == <<returned>>

bwVars == <<bwRequestMap, bwModelMap, bwSent, bwUnprocessed, bwItems, bwDone,
            bwFresh, bwOks, bwExecs, bwHistory>>

bgVars == <<bgRequestMap, bgModelMap, bgDone, bgExecs>>

opVars == <<opKind, opModel, opArg, opAnswer, opConvCalls, opToken, opResult,
            opThrown>>

itVars == <<itKind, itModel, itPages, itPc, itParams, itToken, itNextToken,
            itBuffer, itRequests, itThrown>>

fnVars == <<fnArgs, fnResult>>

\* The variables of the objects set out after the iterators.
bdVars == <<bdHeap, bdModels, bdCalls>>

\* The client's table metrics and the commands in flight on it.
mtVars == <<mtMetrics, mtOps, mtReported, mtClears, mtMaxPending>>

biVars == <<biPc, biDelay, biRounds, biBuffer, biYielded, biWaits>>

restVars == <<fnVars, bdVars, mtVars, biVars>>

vars == <<scenario, atomicVars, writeVars, txVars, readVars, bwVars, bgVars,
          opVars, itVars, restVars>>

\* ------------------------------------------------------------------------
\* Bounds of the model
\* ------------------------------------------------------------------------
\* Writes other clients make to the key while the calls run.
MaxExtWrites == 4

\* Sub-requests accumulated in one transaction.
MaxTxItems == 2

\* commit() calls made on one transaction object.
MaxCommits == 2

\* Requests accumulated in one batch statement.
MaxBatchReqs == 2

\* execute() calls made on one batch statement.
MaxExecs == 2

\* Pages the store holds for one scan or query.
MaxPages == 3

\* Items in one page.
MaxPageItems == 2

\* Creator functions registered on one model.
MaxCreators == 2

\* with* calls made on one builder.
MaxWithCalls == 2

\* Models built from one builder.
MaxBuilds == 2

\* Updaters registered on one model.
MaxUpdaters == 2

\* Commands sent on one client.
MaxMetricOps == 2

\* Entries of one output's ConsumedCapacity.
MaxCapacityItems == 1

\* clearTableMetrics() calls on one client.
MaxClears == 1

\* Rounds of a batch iterator (the code has no limit) and items of a round.
MaxRounds == 3

MaxRoundItems == 2

\* ------------------------------------------------------------------------
\* Values
\* ------------------------------------------------------------------------
\* The two concurrent atomicAction calls on the same key.
Calls == {"c1", "c2"}

\* maxAttempts = 5 when the parameter is omitted.
DefaultMaxAttempts == 5

\* params.maxAttempts: << >> when omitted, <<n>> when given.
MaxAttemptsInputs == {<< >>, <<-1>>, <<0>>, <<1>>, <<2>>}

\* The condition attribute is missing from an item: item[conditionAttribute]
\* reads as undefined.
NoVer == 0

\* The condition attribute is present and holds null (the store's NULL type).
NullVer == -2

AbsentItem == [exists |-> FALSE, ver |-> NoVer, data |-> {}]

CCFName == "ConditionalCheckFailedException"

\* A transport error (the request may or may not have reached the store) and
\* a store error raised before anything is written.
OtherErrorNames == {"TimeoutError", "ProvisionedThroughputExceededException"}

NoError == [name |-> "none", message |-> ""]

StoreError(n) == [name |-> n, message |-> "store"]

\* A catch that throws another error in place of the one it caught.
CommandCatchWrapping(err) == [name |-> "Error", message |-> "wrapped"]

\* command: catch (err) { ...; throw err; }
CommandCatch(err) == err

ExhaustedError == [name |-> "Error", message |-> "Atomic action failed after max attempts"]

\* DynamoModel.isConditionalCheckFailed: decided by the error's name.
IsConditionalCheckFailed(err) == err.name = CCFName

\* const {maxAttempts = 5} = params
EffectiveMaxAttempts(c) ==
    IF maxAttemptsParam[c] = << >> THEN DefaultMaxAttempts ELSE maxAttemptsParam[c][1]

LoopTestOffByOne(a, max) == a <= max

\* The test of a loop that runs its body before testing.
LoopTestAfterBody(a, max) == a = 0 \/ a < max

\* for (let attempt = 0; attempt < maxAttempts; attempt++)
LoopTest(a, max) == a < max

AtomicConditionsNone(item) == [op |-> "none", value |-> NoVer]

AtomicConditionsNotExists(item) == [op |-> "attributeNotExists", value |-> NoVer]

\* conditions: {[conditionAttribute]: item?.[conditionAttribute] ?? attributeNotExists()}
AtomicConditions(item) ==
    IF item.exists /\ item.ver \notin {NoVer, NullVer}
    THEN [op |-> "eq", value |-> item.ver]
    ELSE [op |-> "attributeNotExists", value |-> NoVer]

CatchOutcomeRetryAll(err) == "delay"

\* catch (err) { if (!isConditionalCheckFailed(err)) throw err; await delay }
CatchOutcome(err) == IF IsConditionalCheckFailed(err) THEN "delay" ELSE "throw"

\* The store's evaluation of a write's ConditionExpression against the stored item.
ConditionHolds(cond, stored) ==
    CASE cond.op = "eq" -> stored.exists /\ stored.ver = cond.value
      [] cond.op = "attributeNotExists" -> ~stored.exists \/ stored.ver = NoVer
      [] OTHER -> TRUE

\* The action of the README: merge the call's change into the item it was
\* handed and write the result; the creator/updater assigns the condition
\* attribute a value it never had before.
MergedItem(c, item) == [exists |-> TRUE, ver |-> nextVer, data |-> item.data \cup {c}]


\* ------------------------------------------------------------------------
\* Models, triggers and the write in progress
\* ------------------------------------------------------------------------
Models == {"persons", "products"}

\* The models of a single-table design: members is a second model of the
\* table of persons.
SharedTableModels == Models \cup {"members"}

\* model.tableName
TableName(m) == IF m \in {"persons", "members"} THEN "persons-table" ELSE "products-table"

Tables == {TableName(m) : m \in Models}

NoModel == "no-model"

\* model.params.triggers, in registration order (withTrigger appends).
TriggersOf(m) ==
    CASE m = "persons" -> <<"audit", "index">>
      [] m = "members" -> <<"welcome">>
      [] OTHER -> <<"notify">>

\* model.params.triggers.forEach(trigger => trigger(item, command, model))
TriggerCalls(m, item, command) ==
    [j \in 1..Len(TriggersOf(m)) |->
        [trigger |-> TriggersOf(m)[j], item |-> item, command |-> command, model |-> m]]

IdleCall == requestsSent = 0 /\ rejection = << >> /\ failure = << >>

IdleWrite == reply = "none" /\ fired = << >> /\ IdleCall

\* ------------------------------------------------------------------------
\* DynamoWriteTransaction
\* ------------------------------------------------------------------------
TxNoError == [name |-> "none", message |-> "", reasons |-> << >>]

\* TransactionCanceledException with its CancellationReasons (one per item).
TxCancelled(reasons) ==
    [name |-> "TransactionCanceledException", message |-> "store", reasons |-> reasons]

\* Any other store error: it carries no CancellationReasons.
TxStoreError(n) == [name |-> n, message |-> "store", reasons |-> << >>]

TxOtherErrorNames == {"ThrottlingException"}

\* parseRequest: throw new Error('Invalid request')
InvalidRequestError == [name |-> "Error", message |-> "Invalid request", reasons |-> << >>]

ReasonCodes == {"None", "ConditionalCheckFailed", "TransactionConflict"}

\* The sub-request a transaction method pushes: the tag names which of
\* Put/Update/Delete/ConditionCheck is populated, body is the request's Item
\* (Put) or Key (the others).  cond tells whether the request carries a
\* ConditionExpression; via records the model the caller passed.
TxItem(tag, m, n, cond) ==
    [tag |-> tag, TableName |-> TableName(m),
     body |-> IF tag = "Put" THEN [id |-> n, name |-> "x"] ELSE [id |-> n],
     cond |-> cond, via |-> m]

\* parseRequest(request) for an element of TransactItems (Put, Delete,
\* Update, ConditionCheck) or of a batch's RequestItems (PutRequest,
\* DeleteRequest)
ParseRequest(request) ==
    CASE request.tag \in {"PutRequest", "Put"} ->
            [valid |-> TRUE, command |-> "put", key |-> request.body,
             tableName |-> request.TableName]
      [] request.tag \in {"DeleteRequest", "Delete"} ->
            [valid |-> TRUE, command |-> "delete", key |-> request.body,
             tableName |-> request.TableName]
      [] request.tag \in {"UpdateRequest", "Update"} ->
            [valid |-> TRUE, command |-> "update", key |-> request.body,
             tableName |-> request.TableName]
      [] OTHER ->
            [valid |-> FALSE, command |-> "none", key |-> request.body,
             tableName |-> request.TableName]

IsTransactionCancelled(err) == err.name = "TransactionCanceledException"

ConditionalCheckFailedEvery(err) ==
    /\ IsTransactionCancelled(err)
    /\ \A i \in 1..Len(err.reasons) : err.reasons[i] = "ConditionalCheckFailed"

\* static conditionalCheckFailed(err): cancelled, and some reason has Code
\* 'ConditionalCheckFailed'
ConditionalCheckFailedOf(err) ==
    /\ IsTransactionCancelled(err)
    /\ \E i \in 1..Len(err.reasons) : err.reasons[i] = "ConditionalCheckFailed"

\* this.items.forEach(item => {parseRequest; modelMap.get; triggers.forEach})
\* from item i on: the trigger calls made, and whether parseRequest threw.
RECURSIVE TxFireFrom(_, _, _, _)
TxFireFrom(items, map, i, acc) ==
    IF i > Len(items)
    THEN [log |-> acc, threw |-> FALSE]
    ELSE LET pr == ParseRequest(items[i])
             m == map[pr.tableName]
         IN  IF ~pr.valid
             THEN [log |-> acc, threw |-> TRUE]
             ELSE TxFireFrom(items, map, i + 1,
                             IF m = NoModel THEN acc
                             ELSE acc \o TriggerCalls(m, pr.key, pr.command))

IdleTxn ==
    /\ txItems = << >>
    /\ txModelMap = [t \in Tables |-> NoModel]
    /\ txErr = TxNoError
    /\ txSent = << >>
    /\ txVerdict = << >>
    /\ txResult = "none"
    /\ txThrown = TxNoError
    /\ txCommits = 0

\* The state of the atomicAction variables when no call is exercised.
IdleAtomic ==
    /\ store = AbsentItem
    /\ nextVer = 2
    /\ extWrites = 0
    /\ pc = [c \in Calls |-> "idle"]
    /\ maxAttemptsParam = [c \in Calls |-> << >>]
    /\ attempt = [c \in Calls |-> 0]
    /\ fetched = [c \in Calls |-> AbsentItem]
    /\ thrown = [c \in Calls |-> NoError]
    /\ fetches = [c \in Calls |-> 0]
    /\ invocations = [c \in Calls |-> 0]
    /\ delays = [c \in Calls |-> 0]
    /\ firstSeen = [c \in Calls |-> -1]
    /\ okAttempt = [c \in Calls |-> -1]
    /\ okFetched = [c \in Calls |-> -1]
    /\ okWrote = [c \in Calls |-> -1]
    /\ raised = [c \in Calls |-> NoError]
    /\ countsAtRaise = [c \in Calls |-> <<0, 0, 0>>]
    /\ concurrent = FALSE

\* ------------------------------------------------------------------------
\* Items, converters and page tokens
\* ------------------------------------------------------------------------
\* Key values the callers use.
Keys == {"a", "b"}

\* model.params.keyAttributes
KeyAttributes(m) == <<"id">>

\* model.params.converters in registration order: persons was built with
\* withDefaultValues, products with no converter (converters is undefined).
ConvertersOf(m) == IF m = "persons" THEN <<"defaults">> ELSE << >>

\* An item as the store or the caller hands it over: no converter has been
\* invoked on it by the operation yet.
RawItem(k) == [id |-> k, conv |-> << >>]

\* convertItem(item): if (converters) each converter is invoked on the item
ConvertItem(m, item) == [item EXCEPT !.conv = @ \o ConvertersOf(m)]

\* The converter invocations convertItem makes on an item (<<item>>, or << >>
\* for undefined), up to the first one that throws.
ConverterCalls(m, item) ==
    [j \in 1..(IF item = << >> THEN (IF ConvertersOf(m) = << >> THEN 0 ELSE 1)
                ELSE Len(ConvertersOf(m))) |->
        [converter |-> ConvertersOf(m)[j], on |-> item]]

\* The converter invocations convertItems makes, from item i on.
RECURSIVE ConverterCallsFrom(_, _, _)
ConverterCallsFrom(m, items, i) ==
    IF i > Len(items) THEN << >>
    ELSE ConverterCalls(m, <<items[i]>>) \o ConverterCallsFrom(m, items, i + 1)

\* convertItems(items)
ConvertItems(m, items) == [i \in 1..Len(items) |-> ConvertItem(m, items[i])]

\* convertItem(undefined): the withDefaultValues converter reads item[k] and
\* so throws a TypeError; with no converter nothing touches the item.
ConvertUndefinedThrows(m) == ConvertersOf(m) # << >>

TypeErrorOfUndefined == [name |-> "TypeError", message |-> "item is undefined"]

\* A key attribute value as the document client hands it over: a string
\* (val: its characters), a number (val: its digits) or a Uint8Array for a
\* binary attribute (val: its bytes).  A plain object (val: the values of
\* its members "0", "1", ...) is what JSON.parse builds from a JSON object.
KeyValueOf(type, val) == [type |-> type, val |-> val]

\* JSON.stringify(value): a string and a number are written as such; a
\* Uint8Array has no toJSON and is written as an object of its indexed elements.
JsonOfValue(value) ==
    [json |-> IF value.type \in {"string", "number"} THEN value.type ELSE "object",
     val |-> value.val]

\* JSON.parse of the text of one value
JsonParseValue(text) ==
    [type |-> text.json, val |-> text.val]

\* JSON.stringify(object)
JsonOfObject(object) == [k \in DOMAIN object |-> JsonOfValue(object[k])]

\* JSON.parse(text) of an object's text
JsonParseObject(text) == [k \in DOMAIN text |-> JsonParseValue(text[k])]

\* Buffer.from(text).toString('base64')
Base64Encode(text) == [base64 |-> text]

\* Buffer.from(token, 'base64').toString()
Base64Decode(token) == token.base64

\* An optional value is << >> (undefined) or <<v>>.
\* formatPageToken(lastKey): lastKey && base64(JSON.stringify(lastKey))
FormatPageToken(lastKey) ==
    IF lastKey = << >> THEN << >>
    ELSE << Base64Encode(JsonOfObject(lastKey[1])) >>

\* parsePageToken(pageToken): pageToken && JSON.parse(base64-decode(pageToken))
ParsePageToken(pageToken) ==
    IF pageToken = << >> THEN << >>
    ELSE << JsonParseObject(Base64Decode(pageToken[1])) >>

\* Page i of total, holding n items of a table with a number key; every page
\* but the last carries a LastEvaluatedKey.
PageOf(i, n, total) ==
    [items |-> [j \in 1..n |-> RawItem(10 * i + j)],
     last |-> IF i < total THEN << [id |-> KeyValueOf("number", <<10 * i + n>>)] >>
              ELSE << >>]

\* The paged results a store can hold for a scan or query.
PageSeqs ==
    UNION {{[i \in 1..total |-> PageOf(i, sizes[i], total)] :
                sizes \in [1..total -> 0..MaxPageItems]} :
           total \in 1..MaxPages}

\* The page the store returns for ExclusiveStartKey = startKey.
StorePageAfter(pages, startKey) ==
    IF startKey = << >> THEN pages[1]
    ELSE pages[(CHOOSE i \in 1..Len(pages) : pages[i].last = startKey) + 1]

\* do { ... } while (p.pageToken)
ItLoopTestNever(pageToken) == FALSE

ItLoopTest(pageToken) == pageToken # << >>

\* const p = {...params}: p is a new object holding the fields of params.
SpreadParams(params) == params

\* The caller's params after p.pageToken = nextPageToken, had p been params
\* itself.
ParamsAfterAssignmentShared(params, nextPageToken) ==
    [params EXCEPT !.pageToken = nextPageToken]

\* The caller's params after p.pageToken = nextPageToken: p is a copy, the
\* assignment does not reach params.
ParamsAfterAssignment(params, nextPageToken) == params

\* ------------------------------------------------------------------------
\* Batch statements: request maps
\* ------------------------------------------------------------------------
\* A request map is a sequence of [table, list] entries: the object's own
\* keys in insertion order, each with its list.
MapHas(map, t) == \E i \in 1..Len(map) : map[i].table = t

MapGet(map, t) == map[CHOOSE i \in 1..Len(map) : map[i].table = t].list

\* let list = map[t]; if (!list) map[t] = list = []; list.push(x)
MapPush(map, t, x) ==
    IF MapHas(map, t)
    THEN [i \in 1..Len(map) |->
            IF map[i].table = t THEN [map[i] EXCEPT !.list = Append(@, x)]
            ELSE map[i]]
    ELSE Append(map, [table |-> t, list |-> <<x>>])

\* done: true, whatever the request map holds.
\* this.requestMap after a rejected execute(), had execute() emptied the map
\* when it sent the request.
RequestMapAfterFailureEmptied(requestMap) == << >>

\* this.requestMap after a rejected execute(): the only assignment to it
\* follows the await that threw, so it holds what was sent.
RequestMapAfterFailure(requestMap) == requestMap

BatchDoneAlways(requestMap) == TRUE

\* done: Object.keys(this.requestMap).length === 0
BatchDone(requestMap) == Len(requestMap) = 0

RECURSIVE MapSize(_)
MapSize(map) == IF map = << >> THEN 0 ELSE Len(Head(map).list) + MapSize(Tail(map))

\* The positions <<entry, index>> of a map.
MapSlots(map) ==
    UNION {{<<i, j>> : j \in 1..Len(map[i].list)} : i \in 1..Len(map)}

\* The elements of list at the positions <<i, _>> of slots, in order.
RECURSIVE PickFrom(_, _, _, _)
PickFrom(list, i, slots, j) ==
    IF j > Len(list) THEN << >>
    ELSE (IF <<i, j>> \in slots THEN <<list[j]>> ELSE << >>)
         \o PickFrom(list, i, slots, j + 1)

\* The part of map at the positions in slots: what a store leaves
\* unprocessed (a table with nothing left is not listed).
RECURSIVE SubMapFrom(_, _, _)
SubMapFrom(map, slots, i) ==
    IF i > Len(map) THEN << >>
    ELSE LET rest == PickFrom(map[i].list, i, slots, 1)
         IN  (IF rest = << >> THEN << >>
              ELSE << [table |-> map[i].table, list |-> rest] >>)
             \o SubMapFrom(map, slots, i + 1)

\* {PutRequest: createPutRequest(model, params)} or
\* {DeleteRequest: createDeleteRequest(model, params)}: body is the Item or
\* the Key of the request.
BatchRequest(tag, m, k) ==
    [tag |-> tag, TableName |-> TableName(m),
     body |-> IF tag = "PutRequest" THEN [id |-> k, name |-> "x"] ELSE [id |-> k],
     cond |-> FALSE, via |-> m]

\* getKeyValues(item, keyAttributes)
GetKeyValues(item, keyAttributes) ==
    [i \in 1..Len(keyAttributes) |-> item[keyAttributes[i]]]

\* JSON.stringify of an array of strings
RECURSIVE JsonElements(_)
JsonElements(values) ==
    IF values = << >> THEN ""
    ELSE "\"" \o Head(values) \o "\"" \o
         (IF Len(values) > 1 THEN "," ELSE "") \o JsonElements(Tail(values))

JsonStringify(values) == "[" \o JsonElements(values) \o "]"

\* nextRequestMap?.[tableName]?.map(request => JSON.stringify(getKeyValues(
\*     parseRequest(request).key, model.params.keyAttributes)))
NextKeyValues(next, t, m) ==
    IF MapHas(next, t)
    THEN << [i \in 1..Len(MapGet(next, t)) |->
               JsonStringify(GetKeyValues(ParseRequest(MapGet(next, t)[i]).key,
                                          KeyAttributes(m)))] >>
    ELSE << >>

\* A request counted as processed only when its whole table was.
BwWasProcessedWithItsTable(nextKeyValues, keyValue) == nextKeyValues = << >>

BwWasProcessedAlways(nextKeyValues, keyValue) == TRUE

\* !nextKeyValues?.some(v => v === keyValue)
BwWasProcessed(nextKeyValues, keyValue) ==
    \/ nextKeyValues = << >>
    \/ ~ \E i \in 1..Len(nextKeyValues[1]) : nextKeyValues[1][i] = keyValue

\* for (const request of requests) from request j of the table's list on:
\* the trigger calls made and the items pushed.
RECURSIVE BwWalkList(_, _, _, _, _)
BwWalkList(list, m, nextKeyValues, j, acc) ==
    IF j > Len(list) THEN acc
    ELSE LET pr == ParseRequest(list[j])
             keyValue == JsonStringify(GetKeyValues(pr.key, KeyAttributes(m)))
         IN  BwWalkList(list, m, nextKeyValues, j + 1,
                IF BwWasProcessed(nextKeyValues, keyValue)
                THEN [log |-> acc.log \o TriggerCalls(m, pr.key, pr.command),
                      items |-> Append(acc.items,
                                  [model |-> m, command |-> pr.command, key |-> pr.key])]
                ELSE acc)

\* for (const [tableName, requests] of Object.entries(this.requestMap))
RECURSIVE BwWalk(_, _, _, _, _)
BwWalk(map, modelMap, next, i, acc) ==
    IF i > Len(map) THEN acc
    ELSE LET m == modelMap[map[i].table]
         IN  BwWalk(map, modelMap, next, i + 1,
                    BwWalkList(map[i].list, m,
                               NextKeyValues(next, map[i].table, m), 1, acc))

\* ------------------------------------------------------------------------
\* Idle values of each object's variables
\* ------------------------------------------------------------------------
IdleRead == returned = << >>

IdleBw ==
    /\ bwRequestMap = << >>
    /\ bwModelMap = [t \in Tables |-> NoModel]
    /\ bwSent = << >>
    /\ bwUnprocessed = << >>
    /\ bwItems = << >>
    /\ bwDone = FALSE
    /\ bwFresh = TRUE
    /\ bwOks = 0
    /\ bwExecs = 0
    /\ bwHistory = << >>

IdleBg ==
    /\ bgRequestMap = << >>
    /\ bgModelMap = [t \in Tables |-> NoModel]
    /\ bgDone = FALSE
    /\ bgExecs = 0

IdleOp ==
    /\ opKind = "none"
    /\ opModel = NoModel
    /\ opArg = << >>
    /\ opAnswer = << >>
    /\ opConvCalls = << >>
    /\ opToken = << >>
    /\ opResult = "none"
    /\ opThrown = NoError

IdleIt ==
    /\ itKind = "none"
    /\ itModel = NoModel
    /\ itPages = << >>
    /\ itPc = "none"
    /\ itParams = << >>
    /\ itToken = << >>
    /\ itNextToken = << >>
    /\ itBuffer = << >>
    /\ itRequests = << >>
    /\ itThrown = NoError

\* ------------------------------------------------------------------------
\* Request factory: the item of a put request
\* ------------------------------------------------------------------------
\* An item is a function from the attribute names it has to their values.
ItemAttrs == {"id", "t", "u"}

\* Items a caller passes to put: id is always there, t and u may be.
CallerItems ==
    {[k \in {"id"} \cup opt |-> IF k = "id" THEN 1 ELSE 2] : opt \in SUBSET {"t", "u"}}
      \cup {[id |-> 2, t |-> 1]}

\* The creator functions a model can be built with (withCreator).
Creators == {"stampOne", "stampTwo", "derive"}

\* creator(item): the partial item a creator returns for item.  derive reads
\* the item it is given.
CreatorOutput(c, item) ==
    CASE c = "stampOne" -> [t |-> 7]
      [] c = "stampTwo" -> [t |-> 8, u |-> 8]
      [] OTHER -> [u |-> IF "t" \in DOMAIN item THEN item["t"] + 10 ELSE 10]

OverlayKeepTarget(target, source) ==
    [k \in DOMAIN target \cup DOMAIN source |->
        IF k \in DOMAIN target THEN target[k] ELSE source[k]]

\* Object.assign(target, source): every own property of source is copied
\* onto target.
Overlay(target, source) ==
    [k \in DOMAIN target \cup DOMAIN source |->
        IF k \in DOMAIN source THEN source[k] ELSE target[k]]

\* Object.assign(target, ...sources): the sources are copied left to right.
RECURSIVE ObjectAssign(_, _)
ObjectAssign(target, sources) ==
    IF sources = << >> THEN target
    ELSE ObjectAssign(Overlay(target, Head(sources)), Tail(sources))

\* createPutRequest: creators.map(creator => creator(item)) is evaluated
\* before Object.assign copies anything, so every creator is given the
\* caller's item; Item is the caller's item with the outputs assigned onto it.
CreatePutRequestItem(item, creators) ==
    ObjectAssign(item, [i \in 1..Len(creators) |-> CreatorOutput(creators[i], item)])

\* Sequences over set of length at most n.
SeqsUpTo(set, n) == UNION {[1..len -> set] : len \in 0..n}

IdleFn == fnArgs = << >> /\ fnResult = << >>

\* ------------------------------------------------------------------------
\* DynamoModelBuilder: the parameters object
\* ------------------------------------------------------------------------
\* private readonly params = {indices: {}, creators: [], updaters: [],
\* triggers: []}: keyAttributes and converters are undefined (<< >>).
NewModelParams ==
    [keyAttributes |-> << >>, indices |-> << >>, creators |-> << >>,
     updaters |-> << >>, triggers |-> << >>, converters |-> << >>]

\* The one params object a builder creates, by reference.
BuilderParams == "params-1"

IdleBd == bdHeap = << >> /\ bdModels = << >> /\ bdCalls = 0

IdleMt ==
    /\ mtMetrics = << >> /\ mtOps = << >> /\ mtReported = << >>
    /\ mtClears = 0 /\ mtMaxPending = 0

IdleBi ==
    /\ biPc = "none" /\ biDelay = 0 /\ biRounds = << >>
    /\ biBuffer = << >> /\ biYielded = << >> /\ biWaits = << >>

IdleRest == IdleFn /\ IdleBd /\ IdleMt /\ IdleBi

NotAtomic == <<writeVars, txVars, readVars, bwVars, bgVars, opVars, itVars,
    restVars>>

NotTxn == <<atomicVars, readVars, bwVars, bgVars, opVars, itVars,
    restVars>>

NotBw == <<atomicVars, txVars, readVars, bgVars, opVars, itVars,
    restVars>>

NotBg == <<atomicVars, txVars, fired, bwVars, opVars, itVars,
    restVars>>

NotOp == <<atomicVars, txVars, bwVars, bgVars, itVars,
    restVars>>

NotIt == <<atomicVars, txVars, fired, callVars, bwVars, bgVars, opVars,
    restVars>>

\* ------------------------------------------------------------------------
\* atomicAction
\* ------------------------------------------------------------------------
InitAtomicFrom(stores) ==
    /\ scenario = "atomic"
    /\ IdleWrite /\ IdleTxn /\ IdleRead /\ IdleRest /\ IdleBw /\ IdleBg /\ IdleOp /\ IdleIt
    /\ store \in stores
    /\ nextVer = 2
    /\ extWrites = 0
    /\ pc = [c \in Calls |-> "idle"]
    /\ maxAttemptsParam \in [Calls -> MaxAttemptsInputs]
    /\ attempt = [c \in Calls |-> 0]
    /\ fetched = [c \in Calls |-> AbsentItem]
    /\ thrown = [c \in Calls |-> NoError]
    /\ fetches = [c \in Calls |-> 0]
    /\ invocations = [c \in Calls |-> 0]
    /\ delays = [c \in Calls |-> 0]
    /\ firstSeen = [c \in Calls |-> -1]
    /\ okAttempt = [c \in Calls |-> -1]
    /\ okFetched = [c \in Calls |-> -1]
    /\ okWrote = [c \in Calls |-> -1]
    /\ raised = [c \in Calls |-> NoError]
    /\ countsAtRaise = [c \in Calls |-> <<0, 0, 0>>]
    /\ concurrent = FALSE

\* The documented use: the item is absent, or lacks the condition attribute,
\* or holds a value the model's creator or updater assigned.
InitAtomic ==
    InitAtomicFrom({AbsentItem,
                    [exists |-> TRUE, ver |-> NoVer, data |-> {}],
                    [exists |-> TRUE, ver |-> 1, data |-> {}]})

\* The item was stored with the condition attribute set to null.
InitAtomicAnyValue ==
    InitAtomicFrom({[exists |-> TRUE, ver |-> NullVer, data |-> {}]})

\* The loop test with attempt = a: when it passes the get of this attempt is
\* sent, when it fails the call throws the exhaustion error.
AtomicLoop(c, a) ==
    /\ attempt' = [attempt EXCEPT ![c] = a]
    /\ IF LoopTest(a, EffectiveMaxAttempts(c))
       THEN /\ pc' = [pc EXCEPT ![c] = "get"]
            /\ fetches' = [fetches EXCEPT ![c] = @ + 1]
            /\ UNCHANGED thrown
       ELSE /\ pc' = [pc EXCEPT ![c] = "threw"]
            /\ thrown' = [thrown EXCEPT ![c] = ExhaustedError]
            /\ UNCHANGED fetches

\* What the catch block does with the error the action rejected with.
AtomicCatch(c, err) ==
    IF CatchOutcome(err) = "delay"
    THEN /\ pc' = [pc EXCEPT ![c] = "delay"]
         /\ delays' = [delays EXCEPT ![c] = @ + 1]
         /\ UNCHANGED thrown
    ELSE /\ pc' = [pc EXCEPT ![c] = "threw"]
         /\ thrown' = [thrown EXCEPT ![c] = err]
         /\ UNCHANGED delays

\* atomicAction is called: it runs up to the first await.
AtomicCall(c) ==
    /\ scenario = "atomic"
    /\ UNCHANGED NotAtomic
    /\ pc[c] = "idle"
    /\ AtomicLoop(c, 0)
    /\ concurrent' = (concurrent \/ \E d \in Calls \ {c} : pc[d] \in {"get", "act", "delay"})
    /\ UNCHANGED <<scenario, store, nextVer, extWrites, maxAttemptsParam,
                   fetched, invocations, delays, firstSeen,
                   okAttempt, okFetched, okWrote, raised, countsAtRaise>>

\* The get resolves with the stored item; the action is invoked with it and
\* with the conditions, and sends its conditioned write.
AtomicGetOk(c) ==
    /\ scenario = "atomic"
    /\ UNCHANGED NotAtomic
    /\ pc[c] = "get"
    /\ fetched' = [fetched EXCEPT ![c] = store]
    /\ firstSeen' = [firstSeen EXCEPT ![c] = IF attempt[c] = 0 THEN store.ver ELSE @]
    /\ invocations' = [invocations EXCEPT ![c] = @ + 1]
    /\ pc' = [pc EXCEPT ![c] = "act"]
    /\ UNCHANGED <<scenario, store, nextVer, extWrites, maxAttemptsParam, attempt,
                   thrown, fetches, delays, okAttempt, okFetched, okWrote,
                   raised, countsAtRaise, concurrent>>

\* The get rejects: it is outside the try block, so the error leaves the call.
AtomicGetFail(c, e) ==
    /\ scenario = "atomic"
    /\ UNCHANGED NotAtomic
    /\ pc[c] = "get"
    /\ pc' = [pc EXCEPT ![c] = "threw"]
    /\ thrown' = [thrown EXCEPT ![c] = StoreError(e)]
    /\ raised' = [raised EXCEPT ![c] = StoreError(e)]
    /\ countsAtRaise' = [countsAtRaise EXCEPT ![c] = <<fetches[c], invocations[c], delays[c]>>]
    /\ UNCHANGED <<scenario, store, nextVer, extWrites, maxAttemptsParam, attempt,
                   fetched, fetches, invocations, delays, firstSeen,
                   okAttempt, okFetched, okWrote, concurrent>>

\* The store accepts the action's write: return await action(...).
AtomicActOk(c) ==
    /\ scenario = "atomic"
    /\ UNCHANGED NotAtomic
    /\ pc[c] = "act"
    /\ ConditionHolds(AtomicConditions(fetched[c]), store)
    /\ store' = MergedItem(c, fetched[c])
    /\ nextVer' = nextVer + 1
    /\ okAttempt' = [okAttempt EXCEPT ![c] = attempt[c]]
    /\ okFetched' = [okFetched EXCEPT ![c] = fetched[c].ver]
    /\ okWrote' = [okWrote EXCEPT ![c] = nextVer]
    /\ pc' = [pc EXCEPT ![c] = "returned"]
    /\ UNCHANGED <<scenario, extWrites, maxAttemptsParam, attempt, fetched, thrown,
                   fetches, invocations, delays, firstSeen, raised, countsAtRaise, concurrent>>

\* The store rejects the write with a conditional-check-failed error, which
\* the action rejects with.
AtomicActConditionFailed(c) ==
    /\ scenario = "atomic"
    /\ UNCHANGED NotAtomic
    /\ pc[c] = "act"
    /\ ~ConditionHolds(AtomicConditions(fetched[c]), store)
    /\ AtomicCatch(c, StoreError(CCFName))
    /\ UNCHANGED <<scenario, store, nextVer, extWrites, maxAttemptsParam, attempt,
                   fetched, fetches, invocations, firstSeen,
                   okAttempt, okFetched, okWrote, raised, countsAtRaise, concurrent>>

\* The action rejects with another error: throttling, or a timeout with the
\* request lost on its way (reached = FALSE) or the response lost on its way
\* back, in which case the store has applied the write if its condition held.
AtomicActOtherError(c, e, reached) ==
    /\ scenario = "atomic"
    /\ UNCHANGED NotAtomic
    /\ pc[c] = "act"
    /\ reached => e = "TimeoutError"
    /\ IF reached /\ ConditionHolds(AtomicConditions(fetched[c]), store)
       THEN /\ store' = MergedItem(c, fetched[c])
            /\ nextVer' = nextVer + 1
       ELSE UNCHANGED <<store, nextVer>>
    /\ AtomicCatch(c, StoreError(e))
    /\ raised' = [raised EXCEPT ![c] = StoreError(e)]
    /\ countsAtRaise' = [countsAtRaise EXCEPT ![c] = <<fetches[c], invocations[c], delays[c]>>]
    /\ UNCHANGED <<scenario, extWrites, maxAttemptsParam, attempt, fetched,
                   fetches, invocations, firstSeen, okAttempt, okFetched, okWrote,
                   concurrent>>

\* A delay that lasts while another call awaits the store.
DelayElapsesWhenAlone(c) == \A d \in Calls \ {c} : pc[d] \notin {"get", "act"}

\* await new Promise(resolve => setTimeout(resolve, Math.random() * 100)):
\* the timer fires whatever the other calls are doing.
DelayElapses(c) == TRUE

\* The delay's timer fires: attempt++, the loop test, and the next get.
AtomicDelayDone(c) ==
    /\ scenario = "atomic"
    /\ UNCHANGED NotAtomic
    /\ pc[c] = "delay"
    /\ DelayElapses(c)
    /\ AtomicLoop(c, attempt[c] + 1)
    /\ UNCHANGED <<scenario, store, nextVer, extWrites, maxAttemptsParam,
                   fetched, invocations, delays, firstSeen,
                   okAttempt, okFetched, okWrote, raised, countsAtRaise, concurrent>>

\* Another client updates an attribute of the item (an upsert); the model's
\* updater refreshes the condition attribute, the data is left as it is.
ExternalUpdate ==
    /\ scenario = "atomic"
    /\ UNCHANGED NotAtomic
    /\ extWrites < MaxExtWrites
    /\ \E c \in Calls : pc[c] \in {"get", "act", "delay"}
    /\ store' = [exists |-> TRUE, ver |-> nextVer, data |-> store.data]
    /\ nextVer' = nextVer + 1
    /\ extWrites' = extWrites + 1
    /\ UNCHANGED <<scenario, pc, maxAttemptsParam, attempt, fetched, thrown,
                   fetches, invocations, delays, firstSeen,
                   okAttempt, okFetched, okWrote, raised, countsAtRaise, concurrent>>

NextAtomic ==
    \/ \E c \in Calls : AtomicCall(c)
    \/ \E c \in Calls : AtomicGetOk(c)
    \/ \E c \in Calls, e \in OtherErrorNames : AtomicGetFail(c, e)
    \/ \E c \in Calls : AtomicActOk(c)
    \/ \E c \in Calls : AtomicActConditionFailed(c)
    \/ \E c \in Calls, e \in OtherErrorNames, reached \in BOOLEAN :
          AtomicActOtherError(c, e, reached)
    \/ \E c \in Calls : AtomicDelayDone(c)
    \/ ExternalUpdate

SpecAtomic == InitAtomic /\ [][NextAtomic]_vars

SpecAtomicAnyValue == InitAtomicAnyValue /\ [][NextAtomic]_vars

\* ------------------------------------------------------------------------
\* DynamoWriteTransaction: operations
\* ------------------------------------------------------------------------
InitTxn ==
    /\ scenario = "txn"
    /\ IdleAtomic /\ IdleWrite /\ IdleTxn
    /\ IdleRead /\ IdleRest /\ IdleBw /\ IdleBg /\ IdleOp /\ IdleIt

TxCanAdd ==
    /\ scenario = "txn"
    /\ reply # "pending"
    /\ Len(txItems) < MaxTxItems

\* put(model, params): push {Put: createPutRequest(...)}, modelMap.set
TxPut(m, cond) ==
    /\ TxCanAdd
    /\ txItems' = Append(txItems, TxItem("Put", m, Len(txItems) + 1, cond))
    /\ txModelMap' = [txModelMap EXCEPT ![TableName(m)] = m]
    /\ UNCHANGED <<scenario, writeVars, txErr, txSent, txVerdict, txResult, txThrown,
                   txCommits>>
    /\ UNCHANGED NotTxn

\* update(model, params): push {Update: createUpdateRequest(...)}, modelMap.set
TxUpdate(m, cond) ==
    /\ TxCanAdd
    /\ txItems' = Append(txItems, TxItem("Update", m, Len(txItems) + 1, cond))
    /\ txModelMap' = [txModelMap EXCEPT ![TableName(m)] = m]
    /\ UNCHANGED <<scenario, writeVars, txErr, txSent, txVerdict, txResult, txThrown,
                   txCommits>>
    /\ UNCHANGED NotTxn

\* delete(model, params): push {Delete: createDeleteRequest(...)}, modelMap.set
TxDelete(m, cond) ==
    /\ TxCanAdd
    /\ txItems' = Append(txItems, TxItem("Delete", m, Len(txItems) + 1, cond))
    /\ txModelMap' = [txModelMap EXCEPT ![TableName(m)] = m]
    /\ UNCHANGED <<scenario, writeVars, txErr, txSent, txVerdict, txResult, txThrown,
                   txCommits>>
    /\ UNCHANGED NotTxn

\* condition(model, params): push {ConditionCheck: ...}; modelMap is not touched
TxCondition(m) ==
    /\ TxCanAdd
    /\ txItems' = Append(txItems, TxItem("ConditionCheck", m, Len(txItems) + 1, TRUE))
    /\ UNCHANGED <<scenario, writeVars, txModelMap, txErr, txSent, txVerdict, txResult,
                   txThrown, txCommits>>
    /\ UNCHANGED NotTxn

\* commit(): the TransactWriteCommand is sent.
TxCommitSend ==
    /\ scenario = "txn"
    /\ reply # "pending"
    /\ txCommits < MaxCommits
    /\ reply' = "pending"
    /\ requestsSent' = 1
    /\ rejection' = << >>
    /\ failure' = << >>
    /\ fired' = << >>
    /\ txSent' = txItems
    /\ txVerdict' = << >>
    /\ txResult' = "none"
    /\ txThrown' = TxNoError
    /\ txCommits' = txCommits + 1
    /\ UNCHANGED <<scenario, txItems, txModelMap, txErr>>
    /\ UNCHANGED NotTxn

\* The store commits the transaction; commit() then walks this.items.
TxCommitOk ==
    /\ scenario = "txn"
    /\ reply = "pending"
    /\ Len(txItems) >= 1
    /\ reply' = "ok"
    /\ LET r == TxFireFrom(txItems, txModelMap, 1, << >>)
       IN  /\ fired' = r.log
           /\ txResult' = IF r.threw THEN "rejected" ELSE "resolved"
           /\ txThrown' = IF r.threw THEN InvalidRequestError ELSE TxNoError
           /\ failure' = IF r.threw THEN <<InvalidRequestError>> ELSE << >>
    /\ UNCHANGED <<requestsSent, rejection>>
    /\ UNCHANGED <<scenario, txItems, txModelMap, txErr, txSent, txVerdict, txCommits>>
    /\ UNCHANGED NotTxn

\* The store cancels the transaction, giving one reason per item; only a
\* sub-request that carries a condition can fail its condition check.
\* catch (err) { this.err = err; throw err; }
TxCommitCancelled(reasons) ==
    /\ scenario = "txn"
    /\ reply = "pending"
    /\ Len(reasons) = Len(txItems)
    /\ \E i \in 1..Len(reasons) : reasons[i] # "None"
    /\ \A i \in 1..Len(reasons) :
          reasons[i] = "ConditionalCheckFailed" => txItems[i].cond
    /\ reply' = "failed"
    /\ rejection' = <<TxCancelled(reasons)>>
    /\ failure' = <<CommandCatch(TxCancelled(reasons))>>
    /\ UNCHANGED requestsSent
    /\ txVerdict' = reasons
    /\ txErr' = TxCancelled(reasons)
    /\ txThrown' = TxCancelled(reasons)
    /\ txResult' = "rejected"
    /\ UNCHANGED <<scenario, fired, txItems, txModelMap, txSent, txCommits>>
    /\ UNCHANGED NotTxn

\* The store call fails with another error.
TxCommitError(e) ==
    /\ scenario = "txn"
    /\ reply = "pending"
    /\ reply' = "failed"
    /\ rejection' = <<TxStoreError(e)>>
    /\ failure' = <<CommandCatch(TxStoreError(e))>>
    /\ UNCHANGED requestsSent
    /\ txErr' = TxStoreError(e)
    /\ txThrown' = TxStoreError(e)
    /\ txResult' = "rejected"
    /\ UNCHANGED <<scenario, fired, txItems, txModelMap, txSent, txVerdict, txCommits>>
    /\ UNCHANGED NotTxn

NextTxn ==
    \/ \E m \in Models, cond \in BOOLEAN : TxPut(m, cond)
    \/ \E m \in Models, cond \in BOOLEAN : TxUpdate(m, cond)
    \/ \E m \in Models, cond \in BOOLEAN : TxDelete(m, cond)
    \/ \E m \in Models : TxCondition(m)
    \/ TxCommitSend
    \/ TxCommitOk
    \/ \E reasons \in UNION {[1..n -> ReasonCodes] : n \in 1..MaxTxItems} :
          TxCommitCancelled(reasons)
    \/ \E e \in TxOtherErrorNames : TxCommitError(e)

SpecTxn == InitTxn /\ [][NextTxn]_vars

\* ------------------------------------------------------------------------
\* DynamoBatchWriteStatement: operations
\* ------------------------------------------------------------------------
InitBw ==
    /\ scenario = "batchWrite"
    /\ IdleAtomic /\ IdleWrite /\ IdleTxn
    /\ IdleRead /\ IdleRest /\ IdleBw /\ IdleBg /\ IdleOp /\ IdleIt

\* The history is extended when it is recorded.
BwRecord(history, added, log, items) ==
    IF history = << >> THEN history
    ELSE [added |-> history.added \o added,
          fired |-> history.fired \o log,
          items |-> history.items \o items]

\* A new statement whose history is recorded; it is given at most
\* MaxBatchReqs requests over its life.
InitBwRounds ==
    /\ scenario = "batchWrite"
    /\ IdleAtomic /\ IdleWrite /\ IdleTxn
    /\ IdleRead /\ IdleRest /\ IdleBg /\ IdleOp /\ IdleIt
    /\ bwRequestMap = << >>
    /\ bwModelMap = [t \in Tables |-> NoModel]
    /\ bwSent = << >>
    /\ bwUnprocessed = << >>
    /\ bwItems = << >>
    /\ bwDone = FALSE
    /\ bwFresh = TRUE
    /\ bwOks = 0
    /\ bwExecs = 0
    /\ bwHistory = [added |-> << >>, fired |-> << >>, items |-> << >>]

\* A request can be added: the statement is not awaiting the store and holds
\* no request for the same key of the table (the store rejects a batch that
\* names an item twice).
BwCanAdd(m, k) ==
    /\ scenario = "batchWrite"
    /\ reply # "pending"
    /\ MapSize(bwRequestMap) < MaxBatchReqs
    /\ bwHistory # << >> => Len(bwHistory.added) < MaxBatchReqs
    /\ MapHas(bwRequestMap, TableName(m)) =>
          \A j \in 1..Len(MapGet(bwRequestMap, TableName(m))) :
              MapGet(bwRequestMap, TableName(m))[j].body.id # k

BwAdd(tag, m, k) ==
    /\ BwCanAdd(m, k)
    /\ bwRequestMap' = MapPush(bwRequestMap, TableName(m), BatchRequest(tag, m, k))
    /\ bwModelMap' = [bwModelMap EXCEPT ![TableName(m)] = m]
    /\ bwFresh' = FALSE
    /\ bwHistory' = BwRecord(bwHistory, <<BatchRequest(tag, m, k)>>, << >>, << >>)
    /\ UNCHANGED <<scenario, writeVars, bwSent, bwUnprocessed, bwItems, bwDone,
                   bwOks, bwExecs>>
    /\ UNCHANGED NotBw

\* put(model, params)
BwPut(m, k) == BwAdd("PutRequest", m, k)

\* delete(model, params)
BwDelete(m, k) == BwAdd("DeleteRequest", m, k)

\* execute(): the BatchWriteCommand is sent.
BwExecuteSend ==
    /\ scenario = "batchWrite"
    /\ reply # "pending"
    /\ bwExecs < MaxExecs
    /\ reply' = "pending"
    /\ requestsSent' = 1
    /\ rejection' = << >>
    /\ failure' = << >>
    /\ fired' = << >>
    /\ bwSent' = bwRequestMap
    /\ bwItems' = << >>
    /\ bwExecs' = bwExecs + 1
    /\ UNCHANGED <<scenario, bwRequestMap, bwModelMap, bwUnprocessed, bwDone,
                   bwFresh, bwOks, bwHistory>>
    /\ UNCHANGED NotBw

\* The store answers, leaving the requests at the positions in slots
\* unprocessed; execute() fires the triggers of the processed requests,
\* reports them and keeps the unprocessed ones as its request map.
BwExecuteOk(slots) ==
    /\ scenario = "batchWrite"
    /\ reply = "pending"
    /\ bwRequestMap # << >>
    /\ reply' = "ok"
    /\ UNCHANGED callVars
    /\ LET next == SubMapFrom(bwRequestMap, slots, 1)
           r == BwWalk(bwRequestMap, bwModelMap, next, 1,
                       [log |-> << >>, items |-> << >>])
       IN  /\ fired' = r.log
           /\ bwItems' = r.items
           /\ bwUnprocessed' = next
           /\ bwRequestMap' = next
           /\ bwDone' = BatchDone(next)
           /\ bwHistory' = BwRecord(bwHistory, << >>, r.log, r.items)
    /\ bwFresh' = TRUE
    /\ bwOks' = bwOks + 1
    /\ UNCHANGED <<scenario, bwModelMap, bwSent, bwExecs>>
    /\ UNCHANGED NotBw

\* The store rejects the request: command() throws out of execute().
BwExecuteFail(e) ==
    /\ scenario = "batchWrite"
    /\ reply = "pending"
    /\ reply' = "failed"
    /\ rejection' = <<StoreError(e)>>
    /\ failure' = <<CommandCatch(StoreError(e))>>
    /\ UNCHANGED requestsSent
    /\ bwRequestMap' = RequestMapAfterFailure(bwRequestMap)
    /\ UNCHANGED <<scenario, fired, bwModelMap, bwSent, bwUnprocessed,
                   bwItems, bwDone, bwFresh, bwOks, bwExecs, bwHistory>>
    /\ UNCHANGED NotBw

NextBwOf(models) ==
    \/ \E m \in models, k \in Keys : BwPut(m, k)
    \/ \E m \in models, k \in Keys : BwDelete(m, k)
    \/ BwExecuteSend
    \/ \E slots \in SUBSET MapSlots(bwRequestMap) : BwExecuteOk(slots)
    \/ \E e \in OtherErrorNames : BwExecuteFail(e)

NextBw == NextBwOf(Models)

NextBwSharedTable == NextBwOf(SharedTableModels)

SpecBw == InitBw /\ [][NextBw]_vars

SpecBwRounds == InitBwRounds /\ [][NextBw]_vars

SpecBwSharedTable == InitBw /\ [][NextBwSharedTable]_vars

\* ------------------------------------------------------------------------
\* DynamoModel: get, scan, query, put, update, delete
\* ------------------------------------------------------------------------
InitOp ==
    /\ scenario = "ops"
    /\ IdleAtomic /\ IdleWrite /\ IdleTxn
    /\ IdleRead /\ IdleRest /\ IdleBw /\ IdleBg /\ IdleOp /\ IdleIt

\* {model, item} for each item of a list
WithModel(m, items) == [i \in 1..Len(items) |-> [model |-> m, item |-> items[i]]]

\* One page a store can answer a scan or query with.
OpPages == {PageOf(1, n, total) : n \in 0..MaxPageItems, total \in 1..2}

\* A model operation is called and its command is sent to the store.
OpCall(kind, m, arg) ==
    /\ scenario = "ops"
    /\ reply # "pending"
    /\ opKind' = kind
    /\ opModel' = m
    /\ opArg' = arg
    /\ opAnswer' = << >>
    /\ opConvCalls' = << >>
    /\ opToken' = << >>
    /\ opResult' = "none"
    /\ opThrown' = NoError
    /\ reply' = "pending"
    /\ requestsSent' = 1
    /\ rejection' = << >>
    /\ failure' = << >>
    /\ fired' = << >>
    /\ returned' = << >>
    /\ UNCHANGED scenario
    /\ UNCHANGED NotOp

\* get(params), update(params), delete(params): params.key
OpCallWithKey(kind, m, k) == OpCall(kind, m, << [id |-> k] >>)

\* put(params): params.item
OpCallPut(m, k) == OpCall("put", m, << RawItem(k) >>)

\* scan(params), query(params)
OpCallPage(kind, m) == OpCall(kind, m, << >>)

OpSettled ==
    /\ reply' = "ok"
    /\ UNCHANGED callVars
    /\ opResult' = "resolved"
    /\ UNCHANGED <<scenario, opKind, opModel, opArg, opThrown>>
    /\ UNCHANGED NotOp

GetConvertsAlways(item) == TRUE

\* get: if (item)
GetConverts(item) == item # << >>

\* get: the store answers with the item or without one; the item is
\* converted and returned, or undefined is returned.
OpGetOk(found) ==
    /\ scenario = "ops" /\ reply = "pending" /\ opKind = "get"
    /\ LET item == IF found THEN << RawItem(opArg[1].id) >> ELSE << >>
       IN  /\ opAnswer' = item
           /\ opConvCalls' = IF GetConverts(item) THEN ConverterCalls(opModel, item)
                             ELSE << >>
           /\ returned' = IF item # << >>
                          THEN WithModel(opModel, << ConvertItem(opModel, item[1]) >>)
                          ELSE << >>
    /\ UNCHANGED <<fired, opToken>>
    /\ OpSettled

\* scan, query: the store answers with a page.
OpPageOk(page) ==
    /\ scenario = "ops" /\ reply = "pending" /\ opKind \in {"scan", "query"}
    /\ opAnswer' = <<page>>
    /\ opConvCalls' = ConverterCallsFrom(opModel, page.items, 1)
    /\ returned' = WithModel(opModel, ConvertItems(opModel, page.items))
    /\ opToken' = FormatPageToken(page.last)
    /\ UNCHANGED fired
    /\ OpSettled

\* put: the store confirms; the caller's item is converted, the triggers are
\* called with it and it is returned.
OpPutOk ==
    /\ scenario = "ops" /\ reply = "pending" /\ opKind = "put"
    /\ LET item == ConvertItem(opModel, opArg[1])
       IN  /\ fired' = TriggerCalls(opModel, item, "put")
           /\ returned' = WithModel(opModel, <<item>>)
    /\ opConvCalls' = ConverterCalls(opModel, opArg)
    /\ UNCHANGED <<opAnswer, opToken>>
    /\ OpSettled

\* update: the store confirms and returns the new image (ALL_NEW).
OpUpdateOk ==
    /\ scenario = "ops" /\ reply = "pending" /\ opKind = "update"
    /\ LET item == ConvertItem(opModel, RawItem(opArg[1].id))
       IN  /\ fired' = TriggerCalls(opModel, item, "update")
           /\ returned' = WithModel(opModel, <<item>>)
    /\ opAnswer' = << RawItem(opArg[1].id) >>
    /\ opConvCalls' = ConverterCalls(opModel, << RawItem(opArg[1].id) >>)
    /\ UNCHANGED opToken
    /\ OpSettled

\* delete: the store confirms and returns the old image (ALL_OLD) when the
\* item existed, no Attributes otherwise; convertItem is called on either.
OpDeleteOk(existed) ==
    /\ scenario = "ops" /\ reply = "pending" /\ opKind = "delete"
    /\ reply' = "ok"
    /\ UNCHANGED <<requestsSent, rejection>>
    /\ opAnswer' = (IF existed THEN << RawItem(opArg[1].id) >> ELSE << >>)
    /\ opConvCalls' = ConverterCalls(opModel, IF existed THEN << RawItem(opArg[1].id) >>
                                              ELSE << >>)
    /\ IF ~existed /\ ConvertUndefinedThrows(opModel)
       THEN /\ fired' = << >>
            /\ opResult' = "rejected"
            /\ opThrown' = TypeErrorOfUndefined
            /\ failure' = <<TypeErrorOfUndefined>>
       ELSE /\ fired' = TriggerCalls(opModel,
                           IF existed
                           THEN << ConvertItem(opModel, RawItem(opArg[1].id)) >>
                           ELSE << >>,
                           "delete")
            /\ opResult' = "resolved"
            /\ opThrown' = NoError
            /\ failure' = << >>
    /\ UNCHANGED <<scenario, returned, opKind, opModel, opArg, opToken>>
    /\ UNCHANGED NotOp

OpFailFiring(e) ==
    /\ scenario = "ops" /\ reply = "pending"
    /\ reply' = "failed"
    /\ rejection' = <<StoreError(e)>>
    /\ failure' = <<CommandCatch(StoreError(e))>>
    /\ UNCHANGED requestsSent
    /\ opResult' = "rejected"
    /\ opThrown' = StoreError(e)
    /\ fired' = TriggerCalls(opModel, opArg, opKind)
    /\ UNCHANGED <<scenario, returned, opKind, opModel, opArg, opAnswer, opConvCalls,
                   opToken>>
    /\ UNCHANGED NotOp

\* The store rejects the command: command() throws out of the operation,
\* before anything after the await runs.
OpFail(e) ==
    /\ scenario = "ops" /\ reply = "pending"
    /\ reply' = "failed"
    /\ rejection' = <<StoreError(e)>>
    /\ failure' = <<CommandCatch(StoreError(e))>>
    /\ UNCHANGED requestsSent
    /\ opResult' = "rejected"
    /\ opThrown' = StoreError(e)
    /\ UNCHANGED <<scenario, fired, returned, opKind, opModel, opArg, opAnswer,
                   opConvCalls, opToken>>
    /\ UNCHANGED NotOp

NextOp ==
    \/ \E kind \in {"get", "update", "delete"}, m \in Models, k \in Keys :
          OpCallWithKey(kind, m, k)
    \/ \E m \in Models, k \in Keys : OpCallPut(m, k)
    \/ \E kind \in {"scan", "query"}, m \in Models : OpCallPage(kind, m)
    \/ \E found \in BOOLEAN : OpGetOk(found)
    \/ \E page \in OpPages : OpPageOk(page)
    \/ OpPutOk
    \/ OpUpdateOk
    \/ \E existed \in BOOLEAN : OpDeleteOk(existed)
    \/ \E e \in OtherErrorNames \cup {CCFName} : OpFail(e)

SpecOp == InitOp /\ [][NextOp]_vars

\* ------------------------------------------------------------------------
\* DynamoModel: scanIterator, queryIterator
\* ------------------------------------------------------------------------
\* The iterator was created with params carrying no pageToken; the store
\* holds some paged result for it.
InitIt ==
    /\ scenario = "iter"
    /\ IdleAtomic /\ IdleWrite /\ IdleTxn
    /\ IdleRead /\ IdleRest /\ IdleBw /\ IdleBg /\ IdleOp
    /\ itKind \in {"scan", "query"}
    /\ itModel \in Models
    /\ itPages \in PageSeqs
    /\ itPc = "start"
    /\ itParams = [pageToken |-> << >>]
    /\ itToken = SpreadParams(itParams).pageToken
    /\ itNextToken = << >>
    /\ itBuffer = << >>
    /\ itRequests = << >>
    /\ itThrown = NoError

\* await this.scan(p) / this.query(p): the request carrying p.pageToken = token
\* is sent.
ItSend(token) ==
    /\ itRequests' = Append(itRequests, token)
    /\ itPc' = "waiting"
    /\ reply' = "pending"

\* p.pageToken = nextPageToken; while (p.pageToken): the next page is
\* requested, or the iterator returns.
ItAdvance(nextPageToken) ==
    /\ itToken' = nextPageToken
    /\ itParams' = ParamsAfterAssignment(itParams, nextPageToken)
    /\ IF ItLoopTest(nextPageToken)
       THEN ItSend(nextPageToken)
       ELSE /\ itPc' = "done"
            /\ UNCHANGED itRequests
            /\ reply' = "ok"

\* The first next(): p = {...params} and the first page is requested.
ItFirstNext ==
    /\ scenario = "iter" /\ itPc = "start"
    /\ ItSend(itToken)
    /\ UNCHANGED <<scenario, returned, itKind, itModel, itPages, itParams, itToken,
                   itNextToken, itBuffer, itThrown>>
    /\ UNCHANGED NotIt

\* next() while items of the page remain: the next one is yielded.
ItYieldNext ==
    /\ scenario = "iter" /\ itPc = "suspended" /\ itBuffer # << >>
    /\ returned' = Append(returned, [model |-> itModel, item |-> Head(itBuffer)])
    /\ itBuffer' = Tail(itBuffer)
    /\ UNCHANGED <<scenario, reply, itKind, itModel, itPages, itPc, itParams, itToken,
                   itNextToken, itRequests, itThrown>>
    /\ UNCHANGED NotIt

\* next() after the last item of the page was yielded.
ItPageEndNext ==
    /\ scenario = "iter" /\ itPc = "suspended" /\ itBuffer = << >>
    /\ ItAdvance(itNextToken)
    /\ UNCHANGED <<scenario, returned, itKind, itModel, itPages, itNextToken,
                   itBuffer, itThrown>>
    /\ UNCHANGED NotIt

\* The store answers the request with the page after ExclusiveStartKey =
\* parsePageToken(p.pageToken); scan/query convert its items and format its
\* LastEvaluatedKey; the iterator yields the first item, or moves on when the
\* page is empty.
ItPageOk ==
    /\ scenario = "iter" /\ itPc = "waiting"
    /\ LET page == StorePageAfter(itPages, ParsePageToken(itToken))
           items == ConvertItems(itModel, page.items)
           nextPageToken == FormatPageToken(page.last)
       IN  IF items # << >>
           THEN /\ returned' = Append(returned, [model |-> itModel, item |-> Head(items)])
                /\ itBuffer' = Tail(items)
                /\ itNextToken' = nextPageToken
                /\ itPc' = "suspended"
                /\ reply' = "ok"
                /\ UNCHANGED <<itParams, itToken, itRequests>>
           ELSE /\ ItAdvance(nextPageToken)
                /\ itNextToken' = nextPageToken
                /\ UNCHANGED <<returned, itBuffer>>
    /\ UNCHANGED <<scenario, itKind, itModel, itPages, itThrown>>
    /\ UNCHANGED NotIt

\* The store rejects the request: the iterator throws.
ItFail(e) ==
    /\ scenario = "iter" /\ itPc = "waiting"
    /\ itPc' = "threw"
    /\ itThrown' = StoreError(e)
    /\ reply' = "failed"
    /\ UNCHANGED <<scenario, returned, itKind, itModel, itPages, itParams, itToken,
                   itNextToken, itBuffer, itRequests>>
    /\ UNCHANGED NotIt

NextIt ==
    \/ ItFirstNext
    \/ ItYieldNext
    \/ ItPageEndNext
    \/ ItPageOk
    \/ \E e \in OtherErrorNames : ItFail(e)

SpecIt == InitIt /\ [][NextIt]_vars

\* ------------------------------------------------------------------------
\* DynamoBatchGetStatement: operations
\* ------------------------------------------------------------------------
InitBg ==
    /\ scenario = "batchGet"
    /\ IdleAtomic /\ IdleWrite /\ IdleTxn
    /\ IdleRead /\ IdleRest /\ IdleBw /\ IdleBg /\ IdleOp /\ IdleIt

\* get(model, params): push params.key to the table's Keys, modelMap.set.
\* The statement holds no key of a table twice (the store rejects a batch
\* that does).
BgGet(m, k) ==
    /\ scenario = "batchGet"
    /\ reply # "pending"
    /\ MapSize(bgRequestMap) < MaxBatchReqs
    /\ MapHas(bgRequestMap, TableName(m)) =>
          \A j \in 1..Len(MapGet(bgRequestMap, TableName(m))) :
              MapGet(bgRequestMap, TableName(m))[j].id # k
    /\ bgRequestMap' = MapPush(bgRequestMap, TableName(m), [id |-> k])
    /\ bgModelMap' = [bgModelMap EXCEPT ![TableName(m)] = m]
    /\ UNCHANGED <<scenario, reply, callVars, returned, bgDone, bgExecs>>
    /\ UNCHANGED NotBg

\* execute(): the BatchGetCommand is sent.
BgExecuteSend ==
    /\ scenario = "batchGet"
    /\ reply # "pending"
    /\ bgExecs < MaxExecs
    /\ reply' = "pending"
    /\ requestsSent' = 1
    /\ rejection' = << >>
    /\ failure' = << >>
    /\ returned' = << >>
    /\ bgExecs' = bgExecs + 1
    /\ UNCHANGED <<scenario, bgRequestMap, bgModelMap, bgDone>>
    /\ UNCHANGED NotBg

\* for (const [tableName, tableItems] of Object.entries(itemMap)):
\* items.push({model, item}) for the items of the tables from entry i on.
RECURSIVE BgCollect(_, _, _)
BgCollect(itemMap, modelMap, i) ==
    IF i > Len(itemMap) THEN << >>
    ELSE WithModel(modelMap[itemMap[i].table],
                   [j \in 1..Len(itemMap[i].list) |-> RawItem(itemMap[i].list[j].id)])
         \o BgCollect(itemMap, modelMap, i + 1)

\* The store answers: Responses holds the items of the keys at the positions
\* in found, UnprocessedKeys the keys at the positions in unprocessed (a key
\* in neither names no item).
BgExecuteOk(found, unprocessed) ==
    /\ scenario = "batchGet"
    /\ reply = "pending"
    /\ bgRequestMap # << >>
    /\ reply' = "ok"
    /\ UNCHANGED callVars
    /\ LET itemMap == SubMapFrom(bgRequestMap, found, 1)
           next == SubMapFrom(bgRequestMap, unprocessed, 1)
       IN  /\ returned' = BgCollect(itemMap, bgModelMap, 1)
           /\ bgRequestMap' = next
           /\ bgDone' = BatchDone(next)
    /\ UNCHANGED <<scenario, bgModelMap, bgExecs>>
    /\ UNCHANGED NotBg

\* The store rejects the request: command() throws out of execute().
BgExecuteFail(e) ==
    /\ scenario = "batchGet"
    /\ reply = "pending"
    /\ reply' = "failed"
    /\ rejection' = <<StoreError(e)>>
    /\ failure' = <<CommandCatch(StoreError(e))>>
    /\ UNCHANGED requestsSent
    /\ bgRequestMap' = RequestMapAfterFailure(bgRequestMap)
    /\ UNCHANGED <<scenario, returned, bgModelMap, bgDone, bgExecs>>
    /\ UNCHANGED NotBg

NextBg ==
    \/ \E m \in Models, k \in Keys : BgGet(m, k)
    \/ BgExecuteSend
    \/ \E unprocessed \in SUBSET MapSlots(bgRequestMap) :
          \E found \in SUBSET (MapSlots(bgRequestMap) \ unprocessed) :
             BgExecuteOk(found, unprocessed)
    \/ \E e \in OtherErrorNames : BgExecuteFail(e)

SpecBg == InitBg /\ [][NextBg]_vars

\* ------------------------------------------------------------------------
\* The writes of the library: model operations, batch write, transaction
\* ------------------------------------------------------------------------
InitWrites == InitOp \/ InitBw \/ InitTxn

NextWrites == NextOp \/ NextBw \/ NextTxn

SpecWrites == InitWrites /\ [][NextWrites]_vars

\* ------------------------------------------------------------------------
\* The reads of the library: model operations, iterators, batch get
\* ------------------------------------------------------------------------
InitReturns == InitOp \/ InitIt \/ InitBg

NextReturns == NextOp \/ NextIt \/ NextBg

SpecReturns == InitReturns /\ [][NextReturns]_vars

\* ------------------------------------------------------------------------
\* createPutRequest
\* ------------------------------------------------------------------------
NotFn == <<atomicVars, writeVars, txVars, readVars, bwVars, bgVars, opVars, itVars,
           bdVars, mtVars, biVars>>

IdleButFn ==
    /\ IdleAtomic /\ IdleWrite /\ IdleTxn
    /\ IdleRead /\ IdleBw /\ IdleBg /\ IdleOp /\ IdleIt /\ IdleBd /\ IdleMt /\ IdleBi

\* A caller item and a model's creators, before createPutRequest is called.
InitPutRequest ==
    /\ scenario = "createPutRequest"
    /\ IdleButFn
    /\ fnArgs \in {[item |-> item, creators |-> creators] :
                      item \in CallerItems, creators \in SeqsUpTo(Creators, MaxCreators)}
    /\ fnResult = << >>

\* createPutRequest(model, {item}) returns the request; fnResult holds its Item.
CreatePutRequest ==
    /\ scenario = "createPutRequest"
    /\ fnResult = << >>
    /\ fnResult' = << CreatePutRequestItem(fnArgs.item, fnArgs.creators) >>
    /\ UNCHANGED <<scenario, fnArgs>>
    /\ UNCHANGED NotFn

NextPutRequest == CreatePutRequest

SpecPutRequest == InitPutRequest /\ [][NextPutRequest]_vars

\* ------------------------------------------------------------------------
\* formatPageToken, parsePageToken
\* ------------------------------------------------------------------------
\* The values a key attribute of a table can have: string, number, binary.
KeyAttributeValues ==
    {KeyValueOf(type, val) : type \in {"string", "number", "Uint8Array"},
                             val \in {<<1>>, <<1, 2>>}}

\* The LastEvaluatedKey of a scan or query answer: absent, or the key of a
\* table with a hash key or with a hash and a range key.
LastKeys ==
    {<< >>} \cup {<< [id |-> v] >> : v \in KeyAttributeValues}
            \cup {<< [id |-> v, sk |-> w] >> : v \in KeyAttributeValues, w \in KeyAttributeValues}

InitPageToken ==
    /\ scenario = "pageToken"
    /\ IdleButFn
    /\ fnArgs \in {[lastKey |-> k] : k \in LastKeys}
    /\ fnResult = << >>

\* scan/query: nextPageToken = formatPageToken(lastKey); fnResult = <<token>>
FormatToken ==
    /\ scenario = "pageToken"
    /\ Len(fnResult) = 0
    /\ fnResult' = << FormatPageToken(fnArgs.lastKey) >>
    /\ UNCHANGED <<scenario, fnArgs>>
    /\ UNCHANGED NotFn

\* createScanRequest: ExclusiveStartKey = parsePageToken(pageToken), called
\* with the token the caller got; fnResult = <<token, start key>>
ParseToken ==
    /\ scenario = "pageToken"
    /\ Len(fnResult) = 1
    /\ fnResult' = Append(fnResult, ParsePageToken(fnResult[1]))
    /\ UNCHANGED <<scenario, fnArgs>>
    /\ UNCHANGED NotFn

NextPageToken == FormatToken \/ ParseToken

SpecPageToken == InitPageToken /\ [][NextPageToken]_vars

\* ------------------------------------------------------------------------
\* DynamoModelBuilder.build, DynamoModelBuilder.class
\* ------------------------------------------------------------------------
\* client, name and tableName as a builder or a ModelOptions object holds
\* them: each << >> (undefined) or <<value>>; who tags where the values come
\* from.
OptionSets(who) ==
    {[client |-> c, name |-> n, tableName |-> t] :
        c \in {<< >>, << "client-" \o who >>},
        n \in {<< >>, << "name-" \o who >>},
        t \in {<< >>, << "table-" \o who >>}}

NoOptions == [client |-> << >>, name |-> << >>, tableName |-> << >>]

\* error(message): the materialization fails with a missing-configuration
\* error carrying the message.
MissingConfiguration(message) ==
    [error |-> <<message>>, client |-> << >>, name |-> << >>, tableName |-> << >>]

DefaultedFallbackFirst(given, fallback) == IF fallback # << >> THEN fallback ELSE given

\* const {x = fallback} = options: the default is used when options.x is
\* undefined.
Defaulted(given, fallback) == IF given # << >> THEN given ELSE fallback

\* const {client = base.client || error(...), name = base.name || error(...),
\*        tableName = base.tableName || name} = options;
\* new DynamoModel(client, name, tableName, params)
Materialize(base, options) ==
    LET client == Defaulted(options.client, base.client)
        name == Defaulted(options.name, base.name)
        tableName == Defaulted(options.tableName, Defaulted(base.tableName, name))
    IN  IF client = << >> THEN MissingConfiguration("client not supplied")
        ELSE IF name = << >> THEN MissingConfiguration("name not supplied")
        ELSE [error |-> << >>, client |-> client, name |-> name, tableName |-> tableName]

\* {...this, ...options}: the properties options has replace the builder's.
SpreadOver(this, options) ==
    [k \in DOMAIN this |-> IF options[k] # << >> THEN options[k] ELSE this[k]]

InitBuild ==
    /\ scenario = "build"
    /\ IdleButFn
    /\ fnArgs \in
         {[method |-> "build", builder |-> b, options |-> o, ctorOptions |-> NoOptions] :
             b \in OptionSets("builder"), o \in OptionSets("options")}
         \cup
         {[method |-> "class", builder |-> b, options |-> o, ctorOptions |-> n] :
             b \in OptionSets("builder"), o \in OptionSets("options"),
             n \in OptionSets("new")}
    /\ fnResult = << >>

\* build(options): fnResult = <<the model or the error>>
Build ==
    /\ scenario = "build"
    /\ fnArgs.method = "build"
    /\ fnResult = << >>
    /\ fnResult' = << Materialize(fnArgs.builder, fnArgs.options) >>
    /\ UNCHANGED <<scenario, fnArgs>>
    /\ UNCHANGED NotFn

\* class(options) returns the class; nothing is resolved yet.
\* fnResult = <<the builder the class closes over>>
ClassOf ==
    /\ scenario = "build"
    /\ fnArgs.method = "class"
    /\ fnResult = << >>
    /\ fnResult' = << SpreadOver(fnArgs.builder, fnArgs.options) >>
    /\ UNCHANGED <<scenario, fnArgs>>
    /\ UNCHANGED NotFn

\* new Class(ctorOptions): fnResult = <<closed-over builder, model or error>>
ClassNew ==
    /\ scenario = "build"
    /\ fnArgs.method = "class"
    /\ Len(fnResult) = 1
    /\ fnResult' = Append(fnResult, Materialize(fnResult[1], fnArgs.ctorOptions))
    /\ UNCHANGED <<scenario, fnArgs>>
    /\ UNCHANGED NotFn

NextBuild == Build \/ ClassOf \/ ClassNew

SpecBuild == InitBuild /\ [][NextBuild]_vars

\* ------------------------------------------------------------------------
\* DynamoModelBuilder: with* calls and the models built
\* ------------------------------------------------------------------------
NotBd == <<atomicVars, writeVars, txVars, readVars, bwVars, bgVars, opVars, itVars,
           fnVars, mtVars, biVars>>

\* new DynamoModelBuilder(client, name, tableName)
InitBuilder ==
    /\ scenario = "builder"
    /\ IdleAtomic /\ IdleWrite /\ IdleTxn
    /\ IdleRead /\ IdleBw /\ IdleBg /\ IdleOp /\ IdleIt /\ IdleFn /\ IdleMt /\ IdleBi
    /\ bdHeap = [r \in {BuilderParams} |-> NewModelParams]
    /\ bdModels = << >>
    /\ bdCalls = 0

\* A with* call assigns to a property of this.params, the object itself.
BdWith(params) ==
    /\ scenario = "builder"
    /\ bdCalls < MaxWithCalls
    /\ bdHeap' = [bdHeap EXCEPT ![BuilderParams] = params]
    /\ bdCalls' = bdCalls + 1
    /\ UNCHANGED <<scenario, bdModels>>
    /\ UNCHANGED NotBd

\* withKey(...keyAttributes): params.keyAttributes = keyAttributes
WithKey(keyAttributes) ==
    BdWith([bdHeap[BuilderParams] EXCEPT !.keyAttributes = <<keyAttributes>>])

\* withIndex(name, ...indexAttributes): params.indices[name] = indexAttributes
WithIndex(name, indexAttributes) ==
    BdWith([bdHeap[BuilderParams] EXCEPT
              !.indices = SelectSeq(@, LAMBDA x : x.name # name)
                            \o << [name |-> name, attrs |-> indexAttributes] >>])

\* withCreator(creator): params.creators.push(creator)
WithCreator(creator) ==
    BdWith([bdHeap[BuilderParams] EXCEPT !.creators = Append(@, creator)])

\* withUpdater(updater): params.updaters.push(updater)
WithUpdater(updater) ==
    BdWith([bdHeap[BuilderParams] EXCEPT !.updaters = Append(@, updater)])

\* withConverter(converter): params.converters = [converter] when there is
\* none yet, params.converters.push(converter) otherwise
WithConverter(converter) ==
    BdWith([bdHeap[BuilderParams] EXCEPT
              !.converters = IF @ = << >> THEN << <<converter>> >>
                             ELSE << Append(@[1], converter) >>])

\* withTrigger(trigger): params.triggers.push(trigger)
WithTrigger(trigger) ==
    BdWith([bdHeap[BuilderParams] EXCEPT !.triggers = Append(@, trigger)])

\* A model is constructed holding the params reference it is passed.
BdConstruct(via, ref) ==
    /\ scenario = "builder"
    /\ Len(bdModels) < MaxBuilds
    /\ bdModels' = Append(bdModels, [via |-> via, params |-> ref, definedAs |-> bdHeap[ref]])
    /\ UNCHANGED <<scenario, bdHeap, bdCalls>>
    /\ UNCHANGED NotBd

\* build(): new DynamoModel(client, name, tableName, this.params)
BdBuild == BdConstruct("build", BuilderParams)

\* new (class())(): builder = {...this, ...options} copies the params
\* reference; super(client, name, tableName, builder.params)
BdClassNew == BdConstruct("class", BuilderParams)

NextBuilder ==
    \/ \E k \in {<<"id">>, <<"id", "sk">>} : WithKey(k)
    \/ \E a \in {<<"name">>, <<"name", "age">>} : WithIndex("by-name", a)
    \/ \E c \in {"stampOne", "stampTwo"} : WithCreator(c)
    \/ WithUpdater("touch")
    \/ WithConverter("defaults")
    \/ \E t \in {"audit", "index"} : WithTrigger(t)
    \/ BdBuild
    \/ BdClassNew

SpecBuilder == InitBuilder /\ [][NextBuilder]_vars

\* ------------------------------------------------------------------------
\* Table metrics: DynamoWrapper.command and logConsumedCapacity
\* ------------------------------------------------------------------------
MetricTables == {"persons", "products"}

\* The ConsumedCapacity entries an output carries: a read, a write, an entry
\* giving only the combined units, one of zero units and one naming no table.
CapacityItems ==
    {[TableName |-> <<t>>, ReadCapacityUnits |-> <<1>>,
      WriteCapacityUnits |-> << >>, CapacityUnits |-> <<1>>] : t \in MetricTables}
    \cup
    {[TableName |-> <<t>>, ReadCapacityUnits |-> << >>,
      WriteCapacityUnits |-> <<2>>, CapacityUnits |-> <<2>>] : t \in MetricTables}
    \cup
    {[TableName |-> <<t>>, ReadCapacityUnits |-> << >>,
      WriteCapacityUnits |-> << >>, CapacityUnits |-> <<1>>] : t \in MetricTables}
    \cup
    {[TableName |-> <<t>>, ReadCapacityUnits |-> <<0>>,
      WriteCapacityUnits |-> <<0>>, CapacityUnits |-> <<0>>] : t \in MetricTables}
    \cup
    {[TableName |-> << >>, ReadCapacityUnits |-> << >>,
      WriteCapacityUnits |-> << >>, CapacityUnits |-> <<1>>]}

\* The outputs of a command: without a ConsumedCapacity property (<< >>), or
\* with one, which is undefined (read as []), one entry or an array.
CommandOutputs ==
    {<< >>} \cup {<<cc>> : cc \in SeqsUpTo(CapacityItems, MaxCapacityItems)}

\* metrics.rcu = rcu, which keeps no earlier units.
AddUnitsOverwriting(metric, units) ==
    IF units = << >> \/ units = <<0>> THEN metric ELSE units

\* if (rcu) { metrics.rcu = (metrics.rcu ?? 0) + rcu; }
AddUnits(metric, units) ==
    IF units = << >> \/ units = <<0>>
    THEN metric
    ELSE <<(IF metric = << >> THEN 0 ELSE metric[1]) + units[1]>>

\* The body of the loop of logConsumedCapacity for one entry.
LogConsumedCapacityItem(tableMetrics, item) ==
    IF item.TableName = << >>
    THEN tableMetrics
    ELSE LET tableName == item.TableName[1]
             metrics == tableMetrics[tableName]
         IN  IF metrics # << >>
             THEN [tableMetrics EXCEPT ![tableName] =
                    <<[rcu |-> AddUnits(metrics[1].rcu, item.ReadCapacityUnits),
                       wcu |-> AddUnits(metrics[1].wcu, item.WriteCapacityUnits),
                       cu |-> AddUnits(metrics[1].cu, item.CapacityUnits)]>>]
             ELSE [tableMetrics EXCEPT ![tableName] =
                    <<[rcu |-> item.ReadCapacityUnits,
                       wcu |-> item.WriteCapacityUnits,
                       cu |-> item.CapacityUnits]>>]

RECURSIVE LogConsumedCapacity(_, _)
LogConsumedCapacity(tableMetrics, items) ==
    IF items = << >>
    THEN tableMetrics
    ELSE LogConsumedCapacity(LogConsumedCapacityItem(tableMetrics, Head(items)),
                             Tail(items))

\* new Map()
NewTableMetrics == [t \in MetricTables |-> << >>]

NoUnits == [t \in MetricTables |-> [rcu |-> 0, wcu |-> 0, cu |-> 0]]

UnitsOf(units) == IF units = << >> THEN 0 ELSE units[1]

\* The units the entries of one output report for a table.
RECURSIVE ReportedBy(_, _)
ReportedBy(items, t) ==
    IF items = << >>
    THEN [rcu |-> 0, wcu |-> 0, cu |-> 0]
    ELSE LET rest == ReportedBy(Tail(items), t)
             item == Head(items)
         IN  IF item.TableName = <<t>>
             THEN [rcu |-> rest.rcu + UnitsOf(item.ReadCapacityUnits),
                   wcu |-> rest.wcu + UnitsOf(item.WriteCapacityUnits),
                   cu |-> rest.cu + UnitsOf(item.CapacityUnits)]
             ELSE rest

NotMt == <<atomicVars, writeVars, txVars, readVars, bwVars, bgVars, opVars, itVars,
           fnVars, bdVars, biVars>>

MtPending == {i \in 1..MaxMetricOps : mtOps[i] = "pending"}

\* new DynamoClient(dc, options)
InitMetrics ==
    /\ scenario = "metrics"
    /\ IdleAtomic /\ IdleWrite /\ IdleTxn
    /\ IdleRead /\ IdleBw /\ IdleBg /\ IdleOp /\ IdleIt /\ IdleFn /\ IdleBd /\ IdleBi
    /\ mtMetrics = NewTableMetrics
    /\ mtOps = [i \in 1..MaxMetricOps |-> "idle"]
    /\ mtReported = NoUnits
    /\ mtClears = 0
    /\ mtMaxPending = 0

\* command: up to the await of executor(this.client.dc, cmd).
MtSend(i) ==
    /\ scenario = "metrics"
    /\ mtOps[i] = "idle"
    /\ mtOps' = [mtOps EXCEPT ![i] = "pending"]
    /\ mtMaxPending' =
         IF Cardinality(MtPending) + 1 > mtMaxPending
         THEN Cardinality(MtPending) + 1 ELSE mtMaxPending
    /\ UNCHANGED <<scenario, mtMetrics, mtReported, mtClears, NotMt>>

\* command: the output arrives; logConsumedCapacity runs when the output has
\* a ConsumedCapacity property, on the map getTableMetrics() returns then.
MtOutput(i, output) ==
    /\ scenario = "metrics"
    /\ mtOps[i] = "pending"
    /\ mtOps' = [mtOps EXCEPT ![i] = "ok"]
    /\ mtMetrics' =
         IF output = << >> THEN mtMetrics
         ELSE LogConsumedCapacity(mtMetrics, output[1])
    /\ mtReported' =
         IF output = << >> THEN mtReported
         ELSE [t \in MetricTables |->
                 LET r == ReportedBy(output[1], t)
                 IN  [rcu |-> mtReported[t].rcu + r.rcu,
                      wcu |-> mtReported[t].wcu + r.wcu,
                      cu |-> mtReported[t].cu + r.cu]]
    /\ UNCHANGED <<scenario, mtClears, mtMaxPending, NotMt>>

\* command: the executor rejects; the error is rethrown.
MtError(i) ==
    /\ scenario = "metrics"
    /\ mtOps[i] = "pending"
    /\ mtOps' = [mtOps EXCEPT ![i] = "failed"]
    /\ UNCHANGED <<scenario, mtMetrics, mtReported, mtClears, mtMaxPending, NotMt>>

\* clearTableMetrics(): this.tableMetrics = new Map()
ClearTableMetrics ==
    /\ scenario = "metrics"
    /\ mtClears < MaxClears
    /\ mtClears' = mtClears + 1
    /\ mtMetrics' = NewTableMetrics
    /\ mtReported' = NoUnits
    /\ UNCHANGED <<scenario, mtOps, mtMaxPending, NotMt>>

NextMetrics ==
    \/ \E i \in 1..MaxMetricOps : MtSend(i)
    \/ \E i \in 1..MaxMetricOps, output \in CommandOutputs : MtOutput(i, output)
    \/ \E i \in 1..MaxMetricOps : MtError(i)
    \/ ClearTableMetrics

SpecMetrics == InitMetrics /\ [][NextMetrics]_vars

\* ------------------------------------------------------------------------
\* The operations that send one command: model operations, batch
\* statements and the write transaction
\* ------------------------------------------------------------------------
InitCalls == InitOp \/ InitBw \/ InitBg \/ InitTxn

NextCalls == NextOp \/ NextBw \/ NextBg \/ NextTxn

SpecCalls == InitCalls /\ [][NextCalls]_vars

\* ------------------------------------------------------------------------
\* The batch statements, get and write
\* ------------------------------------------------------------------------
InitBatches == InitBw \/ InitBg

NextBatches == NextBw \/ NextBg

SpecBatches == InitBatches /\ [][NextBatches]_vars

\* ------------------------------------------------------------------------
\* withDefaultValues: the converter on an item read with or without a
\* projection
\* ------------------------------------------------------------------------
\* The values of the attributes of a stored item: a property can hold
\* undefined, null or a string.
StoredValues == {"undefined", "null", "b"}

\* Items a read returns: id is there, t and u may be; with a projection the
\* store returns the projected attributes only.
StoredItems ==
    UNION {[({"id"} \cup opt) -> StoredValues] : opt \in SUBSET {"t", "u"}}

\* The values objects passed to withDefaultValues.
DefaultValueSets ==
    UNION {[opt -> {"d", "undefined"}] : opt \in SUBSET {"t", "u"}}

\* params.projection of a read: none (<< >>) or the attributes asked for.
Projections == {<< >>, <<{"id"}>>, <<{"id", "t"}>>}

\* item[k]: undefined for a property the item does not have.
ItemGet(item, k) == IF k \in DOMAIN item THEN item[k] ELSE "undefined"

\* A test that takes every falsy value for a missing one.
IsMissingWhenFalsy(item, k) == ItemGet(item, k) \in {"undefined", "null"}

\* if (item[k] === undefined)
IsMissing(item, k) == ItemGet(item, k) = "undefined"

\* The converter of withDefaultValues: item => { for (const [k, v] of
\* Object.entries(values)) if (item[k] === undefined) item[k] = v; }.  It
\* declares no second parameter: the projection it is called with is unused.
DefaultValuesConverter(values, item, projection) ==
    [k \in DOMAIN item \cup {j \in DOMAIN values : IsMissing(item, j)} |->
        IF k \in DOMAIN values /\ IsMissing(item, k) THEN values[k] ELSE item[k]]

\* A read of a model built with withDefaultValues(values) is about to
\* convert the item the store returned for params.projection.
InitDefaults ==
    /\ scenario = "defaults"
    /\ IdleButFn
    /\ fnArgs \in {[item |-> item, values |-> values, projection |-> p] :
                      item \in StoredItems, values \in DefaultValueSets,
                      p \in Projections}
    /\ fnArgs.projection # << >> => DOMAIN fnArgs.item \subseteq fnArgs.projection[1]
    /\ fnResult = << >>

\* convertItem(item, params.projection): converter(item, projection)
ConvertRead ==
    /\ scenario = "defaults"
    /\ fnResult = << >>
    /\ fnResult' = << DefaultValuesConverter(fnArgs.values, fnArgs.item,
                                             fnArgs.projection) >>
    /\ UNCHANGED <<scenario, fnArgs>>
    /\ UNCHANGED NotFn

\* The converter is invoked on the item it has converted.
ConvertAgain ==
    /\ scenario = "defaults"
    /\ Len(fnResult) = 1
    /\ fnResult' = Append(fnResult,
                          DefaultValuesConverter(fnArgs.values, fnResult[1],
                                                 fnArgs.projection))
    /\ UNCHANGED <<scenario, fnArgs>>
    /\ UNCHANGED NotFn

NextDefaults == ConvertRead \/ ConvertAgain

SpecDefaults == InitDefaults /\ [][NextDefaults]_vars

\* ------------------------------------------------------------------------
\* createUpdateRequest
\* ------------------------------------------------------------------------
\* The updater functions a model can be built with (withUpdater).
Updaters == {"touch", "touchBoth", "bump"}

\* updater(attributes): the partial item an updater returns.  bump reads the
\* attributes it is given.
UpdaterOutput(u, attributes) ==
    CASE u = "touch" -> [t |-> 7]
      [] u = "touchBoth" -> [t |-> 8, u |-> 8]
      [] OTHER -> [u |-> IF "t" \in DOMAIN attributes THEN attributes["t"] + 10 ELSE 10]

\* The attributes a caller passes to update: any of t and u.
CallerAttributes ==
    {[k \in opt |-> 2] : opt \in SUBSET {"t", "u"}} \cup {[t |-> 1]}

\* Attributes in which the caller's own values come last.
UpdateAttributesCallerLast(attributes, updaters) ==
    Overlay(ObjectAssign(<< >>, [i \in 1..Len(updaters) |->
                                    UpdaterOutput(updaters[i], attributes)]),
            attributes)

\* Object.assign(attributes, ...model.params.updaters.map(updater =>
\* updater(attributes))): every updater is given the caller's attributes.
UpdateAttributes(attributes, updaters) ==
    ObjectAssign(attributes, [i \in 1..Len(updaters) |->
                                 UpdaterOutput(updaters[i], attributes)])

\* The request createUpdateRequest returns; attributes is what
\* buildUpdateExpression is given to compile.
CreateUpdateRequestOf(key, attributes, updaters) ==
    [Key |-> key,
     ReturnValues |-> "ALL_NEW",
     attributes |-> UpdateAttributes(attributes, updaters)]

InitUpdateRequest ==
    /\ scenario = "createUpdateRequest"
    /\ IdleButFn
    /\ fnArgs \in {[key |-> [id |-> k], attributes |-> a, updaters |-> us] :
                      k \in Keys, a \in CallerAttributes,
                      us \in SeqsUpTo(Updaters, MaxUpdaters)}
    /\ fnResult = << >>

\* createUpdateRequest(model, {key, attributes})
CreateUpdateRequest ==
    /\ scenario = "createUpdateRequest"
    /\ fnResult = << >>
    /\ fnResult' = << CreateUpdateRequestOf(fnArgs.key, fnArgs.attributes,
                                            fnArgs.updaters) >>
    /\ UNCHANGED <<scenario, fnArgs>>
    /\ UNCHANGED NotFn

NextUpdateRequest == CreateUpdateRequest

SpecUpdateRequest == InitUpdateRequest /\ [][NextUpdateRequest]_vars

\* ------------------------------------------------------------------------
\* put: the request's Item and the item returned
\* ------------------------------------------------------------------------
\* The objects the creators of a model return for an item.
CreatorOutputs == {[t |-> "c"], [t |-> "e", u |-> "e"]}

\* params.item as put reads it after createPutRequest, had Object.assign
\* copied the item before assigning.
ParamsItemUntouched(item, fullItem) == item

\* const fullItem = Object.assign(item, ...): the outputs are assigned onto
\* params.item itself, so params.item is the full item from then on.
ParamsItemAfterRequest(item, fullItem) == fullItem

\* put: this.convertItem(params.item) on a model built with
\* withDefaultValues(values)
PutResultItem(values, item, fullItem) ==
    DefaultValuesConverter(values, ParamsItemAfterRequest(item, fullItem), << >>)

\* put(params) is called on a model built with the creators that return
\* outputs and with withDefaultValues(values).
InitPut ==
    /\ scenario = "put"
    /\ IdleButFn
    /\ fnArgs \in {[item |-> item, outputs |-> outputs, values |-> values] :
                      item \in {i \in StoredItems : i["id"] = "b"},
                      outputs \in SeqsUpTo(CreatorOutputs, MaxCreators),
                      values \in DefaultValueSets}
    /\ fnResult = << >>

\* put: new PutCommand(createPutRequest(this, params)) is sent.
PutSend ==
    /\ scenario = "put"
    /\ fnResult = << >>
    /\ fnResult' = << [Item |-> ObjectAssign(fnArgs.item, fnArgs.outputs)] >>
    /\ UNCHANGED <<scenario, fnArgs>>
    /\ UNCHANGED NotFn

\* put: the store confirms; the item is converted and returned.
PutOk ==
    /\ scenario = "put"
    /\ Len(fnResult) = 1
    /\ fnResult' = Append(fnResult,
                          [item |-> PutResultItem(fnArgs.values, fnArgs.item,
                                                  fnResult[1].Item)])
    /\ UNCHANGED <<scenario, fnArgs>>
    /\ UNCHANGED NotFn

NextPut == PutSend \/ PutOk

SpecPut == InitPut /\ [][NextPut]_vars

\* ------------------------------------------------------------------------
\* isDynamoError: classification of store errors by name
\* ------------------------------------------------------------------------
\* The table of wire names, had two kinds been given the same name.
DynamoErrorNamesShared ==
    [AccessDenied |-> "AccessDeniedException",
     ConditionalCheckFailed |-> "ConditionalCheckFailedException",
     DuplicateItem |-> "DuplicateItemException",
     ItemCollectionSizeLimitExceeded |-> "ItemCollectionSizeLimitExceededException",
     ProvisionedThroughputExceeded |-> "ProvisionedThroughputExceededException",
     RequestLimitExceeded |-> "RequestLimitExceeded",
     ResourceNotFound |-> "ResourceNotFoundException",
     ThrottlingError |-> "ProvisionedThroughputExceededException",
     TransactionConflict |-> "TransactionConflictException",
     ValidationError |-> "ValidationException"]

\* const DynamoErrorNames: the wire name of each kind
DynamoErrorNames ==
    [AccessDenied |-> "AccessDeniedException",
     ConditionalCheckFailed |-> "ConditionalCheckFailedException",
     DuplicateItem |-> "DuplicateItemException",
     ItemCollectionSizeLimitExceeded |-> "ItemCollectionSizeLimitExceededException",
     ProvisionedThroughputExceeded |-> "ProvisionedThroughputExceededException",
     RequestLimitExceeded |-> "RequestLimitExceeded",
     ResourceNotFound |-> "ResourceNotFoundException",
     ThrottlingError |-> "ThrottlingException",
     TransactionConflict |-> "TransactionConflictException",
     ValidationError |-> "ValidationException"]

\* keyof DynamoErrors
DynamoErrorKinds == DOMAIN DynamoErrorNames

\* The errors handed to isDynamoError: service tells whether the value is an
\* instance of DynamoDBServiceException, name is its name property.
ClassifiedErrors ==
    [service : BOOLEAN,
     name : {DynamoErrorNames[k] : k \in DynamoErrorKinds} \cup {"TypeError", "Error"}]

\* isDynamoError(err, name)
IsDynamoError(err, name) ==
    err.service /\ err.name = DynamoErrorNames[name]

InitIsDynamoError ==
    /\ scenario = "isDynamoError"
    /\ IdleButFn
    /\ fnArgs \in [err : ClassifiedErrors, name : DynamoErrorKinds]
    /\ fnResult = << >>

\* The caller asks whether the error is of the kind.
Classify ==
    /\ scenario = "isDynamoError"
    /\ fnResult = << >>
    /\ fnResult' = << IsDynamoError(fnArgs.err, fnArgs.name) >>
    /\ UNCHANGED <<scenario, fnArgs>>
    /\ UNCHANGED NotFn

NextIsDynamoError == Classify

SpecIsDynamoError == InitIsDynamoError /\ [][NextIsDynamoError]_vars

\* ------------------------------------------------------------------------
\* Triggers that throw
\* ------------------------------------------------------------------------
TriggerError(trigger) == [name |-> "Error", message |-> trigger]

\* triggers.forEach(trigger => trigger(item, command, model)) from trigger j
\* on, when the triggers in throwing throw: forEach does not catch, so the
\* first throw ends the iteration and leaves the operation.
RECURSIVE ForEachTrigger(_, _, _, _, _, _)
ForEachTrigger(m, item, command, throwing, j, acc) ==
    IF j > Len(TriggersOf(m))
    THEN [log |-> acc, thrown |-> NoError]
    ELSE LET trigger == TriggersOf(m)[j]
             call == [trigger |-> trigger, item |-> item, command |-> command,
                      model |-> m]
         IN  IF trigger \in throwing
             THEN [log |-> Append(acc, call), thrown |-> TriggerError(trigger)]
             ELSE ForEachTrigger(m, item, command, throwing, j + 1, Append(acc, call))

\* The store has confirmed the put, update or delete of an item on a model
\* some of whose triggers throw when they are called.
InitTriggers ==
    /\ scenario = "triggers"
    /\ IdleButFn
    /\ fnArgs \in [model : Models, command : {"put", "update", "delete"},
                   item : {ConvertItem(m, RawItem(k)) : m \in Models, k \in Keys},
                   throwing : SUBSET {"audit", "index", "notify"}]
    /\ fnResult = << >>

\* put / update / delete after the await: the triggers are called, and the
\* operation resolves unless one of them threw.
FireTriggers ==
    /\ scenario = "triggers"
    /\ fnResult = << >>
    /\ LET r == ForEachTrigger(fnArgs.model, fnArgs.item, fnArgs.command,
                               fnArgs.throwing, 1, << >>)
       IN  fnResult' = << [fired |-> r.log,
                           result |-> IF r.thrown = NoError THEN "resolved"
                                      ELSE "rejected",
                           thrown |-> r.thrown] >>
    /\ UNCHANGED <<scenario, fnArgs>>
    /\ UNCHANGED NotFn

NextTriggers == FireTriggers

SpecTriggers == InitTriggers /\ [][NextTriggers]_vars

\* ------------------------------------------------------------------------
\* batchResultIterator
\* ------------------------------------------------------------------------
NotBi == <<atomicVars, writeVars, txVars, readVars, bwVars, bgVars, opVars, itVars,
           fnVars, bdVars, mtVars>>

\* let delay = 100
InitialDelay == 100

NextDelayConstant(delay) == delay

\* delay *= 2
NextDelay(delay) == delay * 2

\* Math.random() * delay: values of [0, delay)
DelayDraws(delay) == {0, delay \div 2, delay - 1}

\* A loop that also ends after a round without items.
RoundEndsWhenEmpty(items, done) == done \/ items = << >>

\* if (done) { return; }
RoundEnds(items, done) == done

\* The items of the n-item result of round r.
RoundItems(r, n) == [j \in 1..n |-> [round |-> r, index |-> j]]

\* executeIterator() was called: the generator exists, nothing has run.
InitBatchIterator ==
    /\ scenario = "batchIterator"
    /\ IdleAtomic /\ IdleWrite /\ IdleTxn
    /\ IdleRead /\ IdleBw /\ IdleBg /\ IdleOp /\ IdleIt /\ IdleFn /\ IdleBd /\ IdleMt
    /\ biPc = "start"
    /\ biDelay = InitialDelay
    /\ biRounds = << >>
    /\ biBuffer = << >>
    /\ biYielded = << >>
    /\ biWaits = << >>

\* After the for loop over the items of a round: return when done, wait a
\* random time below delay otherwise.
BiAfterRound(items, done) ==
    IF RoundEnds(items, done)
    THEN /\ biPc' = "done"
         /\ UNCHANGED biWaits
    ELSE /\ biPc' = "delaying"
         /\ \E drawn \in DelayDraws(biDelay) :
               biWaits' = Append(biWaits, [bound |-> biDelay, drawn |-> drawn])

\* The first next(): execute() is called.
BiFirstNext ==
    /\ scenario = "batchIterator" /\ biPc = "start"
    /\ biPc' = "executing"
    /\ UNCHANGED <<scenario, biDelay, biRounds, biBuffer, biYielded, biWaits>>
    /\ UNCHANGED NotBi

\* execute() resolves with n items and the done flag: the first item is
\* yielded, or, without items, the round is over.
BiExecuteOk(n, done) ==
    /\ scenario = "batchIterator" /\ biPc = "executing"
    /\ LET items == RoundItems(Len(biRounds) + 1, n)
       IN  /\ biRounds' = Append(biRounds, [items |-> items, done |-> done])
           /\ IF items # << >>
              THEN /\ biYielded' = Append(biYielded, Head(items))
                   /\ biBuffer' = Tail(items)
                   /\ biPc' = "suspended"
                   /\ UNCHANGED biWaits
              ELSE /\ BiAfterRound(items, done)
                   /\ UNCHANGED <<biYielded, biBuffer>>
    /\ UNCHANGED <<scenario, biDelay>>
    /\ UNCHANGED NotBi

\* execute() rejects: the generator throws.
BiExecuteFail ==
    /\ scenario = "batchIterator" /\ biPc = "executing"
    /\ biPc' = "threw"
    /\ UNCHANGED <<scenario, biDelay, biRounds, biBuffer, biYielded, biWaits>>
    /\ UNCHANGED NotBi

\* next() while items of the round remain: the next one is yielded.
BiYieldNext ==
    /\ scenario = "batchIterator" /\ biPc = "suspended" /\ biBuffer # << >>
    /\ biYielded' = Append(biYielded, Head(biBuffer))
    /\ biBuffer' = Tail(biBuffer)
    /\ UNCHANGED <<scenario, biPc, biDelay, biRounds, biWaits>>
    /\ UNCHANGED NotBi

\* next() after the last item of the round was yielded.
BiRoundEndNext ==
    /\ scenario = "batchIterator" /\ biPc = "suspended" /\ biBuffer = << >>
    /\ BiAfterRound(biRounds[Len(biRounds)].items, biRounds[Len(biRounds)].done)
    /\ UNCHANGED <<scenario, biDelay, biRounds, biBuffer, biYielded>>
    /\ UNCHANGED NotBi

\* The timer fires: delay *= 2 and the loop calls execute() again.
BiDelayDone ==
    /\ scenario = "batchIterator" /\ biPc = "delaying"
    /\ Len(biRounds) < MaxRounds
    /\ biDelay' = NextDelay(biDelay)
    /\ biPc' = "executing"
    /\ UNCHANGED <<scenario, biRounds, biBuffer, biYielded, biWaits>>
    /\ UNCHANGED NotBi

NextBatchIterator ==
    \/ BiFirstNext
    \/ \E n \in 0..MaxRoundItems, done \in BOOLEAN : BiExecuteOk(n, done)
    \/ BiExecuteFail
    \/ BiYieldNext
    \/ BiRoundEndNext
    \/ BiDelayDone

SpecBatchIterator == InitBatchIterator /\ [][NextBatchIterator]_vars

\* The consumer keeps calling next() (for await), the store answers every
\* execute() and every timer fires.
SpecBatchIteratorFair == SpecBatchIterator /\ WF_vars(NextBatchIterator)

\* ========================================================================
\* Properties of atomicAction
\* ========================================================================
Returned(c) == pc[c] = "returned"

FirstAttemptOver(c) == pc[c] \in {"returned", "threw", "delay"} \/ attempt[c] >= 1

\* The two calls raced: each one's first get saw the same value of the
\* condition attribute (so both were answered before any write), no other
\* client wrote, and neither call was cut short by a transport or store error.
Raced(c, d) ==
    /\ extWrites = 0
    /\ raised[c] = NoError /\ raised[d] = NoError
    /\ firstSeen[c] # -1 /\ firstSeen[c] = firstSeen[d]
    /\ FirstAttemptOver(c) /\ FirstAttemptOver(d)

\* C1: no lost update.  Whenever both atomicAction calls have returned
\* successfully, the stored item holds the change of each of them.
C1_NoLostUpdate ==
    (\A c \in Calls : Returned(c)) => (Calls \subseteq store.data)

\* Both calls returned and one of them had to retry after losing the race.
C1_Witness ==
    /\ \A c \in Calls : Returned(c)
    /\ \E c \in Calls : okAttempt[c] >= 1
    /\ Calls \subseteq store.data

C3_ExhaustedAfterMaxAttempts ==
    \A c \in Calls :
        EffectiveMaxAttempts(c) >= 1 =>
            /\ invocations[c] <= EffectiveMaxAttempts(c)
            /\ (pc[c] = "threw" /\ raised[c] = NoError) =>
                   /\ thrown[c] = ExhaustedError
                   /\ ~IsConditionalCheckFailed(thrown[c])
                   /\ invocations[c] = EffectiveMaxAttempts(c)
                   /\ delays[c] = EffectiveMaxAttempts(c)
            /\ (delays[c] = EffectiveMaxAttempts(c) /\ pc[c] # "delay") =>
                   (pc[c] = "threw" /\ thrown[c] = ExhaustedError)

\* A call that omitted maxAttempts is exhausted after five rejected attempts.
C3_Witness ==
    \E c \in Calls :
        /\ maxAttemptsParam[c] = << >>
        /\ pc[c] = "threw" /\ thrown[c] = ExhaustedError
        /\ invocations[c] = 5 /\ delays[c] = 5

\* C4: once the get or the action of a call has rejected with an error other
\* than a conditional-check failure, the call has failed with that same error
\* and has sent no further get, invoked the action no further and entered no
\* delay.
C4_OtherErrorAborts ==
    \A c \in Calls :
        raised[c] # NoError =>
            /\ pc[c] = "threw"
            /\ thrown[c] = raised[c]
            /\ <<fetches[c], invocations[c], delays[c]>> = countsAtRaise[c]

\* An action rejected with a timeout in a retry, and a get rejected.
C4_Witness ==
    /\ \E c \in Calls : raised[c] = StoreError("TimeoutError") /\ invocations[c] = 2
                        /\ fetches[c] = 2 /\ pc[c] = "threw"
    /\ \E c \in Calls : raised[c] # NoError /\ fetches[c] > invocations[c]

\* ========================================================================
\* Properties of the write transaction
\* ========================================================================
\* The store cancelled the last commit because a sub-request's condition failed.
TxConditionFailed ==
    /\ scenario = "txn"
    /\ reply = "failed"
    /\ \E i \in 1..Len(txVerdict) : txVerdict[i] = "ConditionalCheckFailed"

\* C5: when the store cancels a write transaction because the condition of
\* one of its sub-requests failed, commit() fails, no trigger has fired for
\* any sub-request, and conditionalCheckFailed() on the transaction is true.
C5_CancelledFiresNothing ==
    TxConditionFailed =>
        /\ txResult = "rejected"
        /\ IsTransactionCancelled(txThrown)
        /\ fired = << >>
        /\ ConditionalCheckFailedOf(txErr)

\* A transaction of a put and a conditioned delete of a model with triggers
\* is cancelled: the delete's condition failed, the put's reason is None.
C5_Witness ==
    /\ TxConditionFailed
    /\ Len(txSent) = 2
    /\ txSent[1].tag = "Put" /\ txSent[1].via = "persons"
    /\ txSent[2].tag = "Delete"
    /\ txVerdict = <<"None", "ConditionalCheckFailed">>
    /\ txResult = "rejected" /\ fired = << >>

\* The trigger invocations C6 asks of a committed transaction: for every put,
\* update and delete sub-request, in accumulation order, each trigger of the
\* model it was added through, once, with the sub-request's command; none for
\* a condition check.
RECURSIVE TxExpectedFired(_)
TxExpectedFired(items) ==
    IF items = << >> THEN << >>
    ELSE LET it == Head(items)
             calls == IF it.tag = "ConditionCheck" THEN << >>
                      ELSE TriggerCalls(it.via, it.body,
                                        CASE it.tag = "Put" -> "put"
                                          [] it.tag = "Update" -> "update"
                                          [] OTHER -> "delete")
         IN  calls \o TxExpectedFired(Tail(items))

\* C6: after the store has committed a write transaction, the triggers of
\* every put, update and delete sub-request have fired once each, in order,
\* and no trigger has fired for a condition-check sub-request.
C6_CommitFiresEveryWrite ==
    (scenario = "txn" /\ reply = "ok") => fired = TxExpectedFired(txSent)

\* ========================================================================
\* Properties of the batch write statement
\* ========================================================================
\* Request r is listed for table t in the request map.
BwListed(map, t, r) ==
    /\ MapHas(map, t)
    /\ \E k \in 1..Len(MapGet(map, t)) : MapGet(map, t)[k] = r

BwCommandOf(r) == IF r.tag = "PutRequest" THEN "put" ELSE "delete"

\* The invocations of trigger tr made for request r.
BwFiredFor(r, tr) ==
    {n \in 1..Len(fired) :
        /\ fired[n].trigger = tr
        /\ fired[n].model = r.via
        /\ fired[n].command = BwCommandOf(r)
        /\ fired[n].item = r.body}

\* The result items reporting request r.
BwReported(r) ==
    {n \in 1..Len(bwItems) :
        /\ bwItems[n].model = r.via
        /\ bwItems[n].command = BwCommandOf(r)
        /\ bwItems[n].key = r.body}

\* C7: after execute() got the store's answer, a request the store left
\* unprocessed has fired no trigger, is not among the result items and is
\* what the statement still holds; a request the store processed has fired
\* each trigger of its model exactly once, is reported exactly once and is no
\* longer held; and the next execute() sends exactly the unprocessed requests.
C7_BatchResumption ==
    scenario = "batchWrite" =>
      /\ reply = "ok" =>
           \A i \in 1..Len(bwSent) : \A j \in 1..Len(bwSent[i].list) :
              LET t == bwSent[i].table
                  r == bwSent[i].list[j]
                  trs == TriggersOf(r.via)
              IN  IF BwListed(bwUnprocessed, t, r)
                  THEN /\ \A x \in 1..Len(trs) : BwFiredFor(r, trs[x]) = {}
                       /\ BwReported(r) = {}
                       /\ bwFresh => BwListed(bwRequestMap, t, r)
                  ELSE /\ \A x \in 1..Len(trs) : Cardinality(BwFiredFor(r, trs[x])) = 1
                       /\ Cardinality(BwReported(r)) = 1
                       /\ bwFresh => ~BwListed(bwRequestMap, t, r)
      /\ (reply = "pending" /\ bwOks >= 1 /\ bwFresh) => bwSent = bwUnprocessed

\* Two requests X, Y for one table were sent, the store processed Y only:
\* Y's triggers fired, Y is reported and X alone is left to resubmit.
C7_Witness ==
    /\ scenario = "batchWrite"
    /\ reply = "ok"
    /\ Len(bwSent) = 1
    /\ Len(bwSent[1].list) = 2
    /\ bwUnprocessed = << [table |-> bwSent[1].table, list |-> <<bwSent[1].list[1]>>] >>
    /\ bwRequestMap = bwUnprocessed
    /\ Len(bwItems) = 1
    /\ bwItems[1].key = bwSent[1].list[2].body
    /\ Len(fired) = Len(TriggersOf(bwSent[1].list[2].via))

\* ========================================================================
\* Properties of the iterators
\* ========================================================================
\* The ids of the items of pages i.. in order.
RECURSIVE ItPageIdsFrom(_, _)
ItPageIdsFrom(pages, i) ==
    IF i > Len(pages) THEN << >>
    ELSE [j \in 1..Len(pages[i].items) |-> pages[i].items[j].id]
         \o ItPageIdsFrom(pages, i + 1)

ItYieldedIds == [n \in 1..Len(returned) |-> returned[n].item.id]

\* C8: the iterator sends one request per page up to the first page without
\* a LastEvaluatedKey: the first request carries no token, each later one
\* the token of the page before it; it yields the items of the pages in
\* order, and when it has returned it sent exactly as many requests as there
\* are pages up to that page and yielded exactly their concatenation.
C8_IteratorPages ==
    scenario = "iter" =>
      /\ Len(itRequests) <= Len(itPages)
      /\ \A n \in 1..Len(itRequests) :
            IF n = 1 THEN itRequests[n] = << >>
            ELSE /\ itRequests[n] # << >>
                 /\ ParsePageToken(itRequests[n]) = itPages[n - 1].last
      /\ Len(ItYieldedIds) <= Len(ItPageIdsFrom(itPages, 1))
      /\ ItYieldedIds = SubSeq(ItPageIdsFrom(itPages, 1), 1, Len(ItYieldedIds))
      /\ itPc = "done" =>
            /\ Len(itRequests) = Len(itPages)
            /\ itPages[Len(itRequests)].last = << >>
            /\ ItYieldedIds = ItPageIdsFrom(itPages, 1)

\* Three non-empty pages, the first two with a token: the iterator has
\* returned after three requests.
C8_Witness ==
    /\ scenario = "iter"
    /\ itPc = "done"
    /\ Len(itPages) = 3
    /\ \A i \in 1..3 : itPages[i].items # << >>
    /\ itPages[1].last # << >> /\ itPages[2].last # << >> /\ itPages[3].last = << >>
    /\ Len(itRequests) = 3
    /\ Len(returned) = Len(ItPageIdsFrom(itPages, 1))

\* ========================================================================
\* Properties of triggers and converters
\* ========================================================================
\* C9: for a model put, update or delete, a batch write execute and a
\* transaction commit, trigger invocations exist only once the store has
\* confirmed the request: none while the store's answer is awaited and none
\* when the store rejected the request.
C9_TriggersOnlyAfterConfirmation ==
    (scenario \in {"ops", "batchWrite", "txn"} /\ fired # << >>) => reply = "ok"

\* A put on a model with triggers was rejected by the store and has settled
\* with no trigger called.
C9_Witness ==
    /\ scenario = "ops"
    /\ opKind = "put"
    /\ TriggersOf(opModel) # << >>
    /\ reply = "failed"
    /\ opResult = "rejected"
    /\ fired = << >>

\* C10: every item an operation has handed to its caller has had each
\* converter of its model invoked on it by that operation exactly once, in
\* registration order.
C10_ConvertedExactlyOnce ==
    \A n \in 1..Len(returned) :
        returned[n].item.conv = ConvertersOf(returned[n].model)

\* ========================================================================
\* Properties of the request factory
\* ========================================================================
\* The creators (by position) whose output for the caller's item has attribute k.
CreatorsProducing(k) ==
    {i \in 1..Len(fnArgs.creators) :
        k \in DOMAIN CreatorOutput(fnArgs.creators[i], fnArgs.item)}

Max(set) == CHOOSE x \in set : \A y \in set : y <= x

\* C11: the item of the put request has the attributes of the caller's item
\* and of every creator's output; an attribute some creator produced has the
\* value the last such creator in registration order returned for the
\* caller's item, whatever the caller supplied; any other attribute has the
\* caller's value.
C11_CreatorPrecedence ==
    (scenario = "createPutRequest" /\ fnResult # << >>) =>
      LET sent == fnResult[1]
      IN  /\ DOMAIN sent = DOMAIN fnArgs.item \cup
                             {k \in ItemAttrs : CreatorsProducing(k) # {}}
          /\ \A k \in DOMAIN sent :
                IF CreatorsProducing(k) # {}
                THEN sent[k] = CreatorOutput(fnArgs.creators[Max(CreatorsProducing(k))],
                                             fnArgs.item)[k]
                ELSE sent[k] = fnArgs.item[k]

\* Two creators produce t with different values and the caller supplied t
\* as well: the request was built.
C11_Witness ==
    /\ scenario = "createPutRequest"
    /\ fnResult # << >>
    /\ "t" \in DOMAIN fnArgs.item
    /\ fnArgs.creators = <<"stampOne", "stampTwo">>
    /\ fnResult[1]["t"] = 8

\* C12: the start key parsed from the token formatted for a last evaluated
\* key is that key; an absent last key gives an absent token and an absent
\* token an absent start key.
C12_TokenRoundTrip ==
    scenario = "pageToken" =>
      /\ Len(fnResult) >= 1 => (fnResult[1] = << >> <=> fnArgs.lastKey = << >>)
      /\ Len(fnResult) = 2 => fnResult[2] = fnArgs.lastKey

\* The same, for the keys of tables whose key attributes are strings and
\* numbers.
PageTokenRoundTripOfStringAndNumberKeys ==
    (/\ scenario = "pageToken"
     /\ fnArgs.lastKey # << >>
     /\ \A k \in DOMAIN fnArgs.lastKey[1] : fnArgs.lastKey[1][k].type # "Uint8Array")
    => /\ Len(fnResult) >= 1 => fnResult[1] # << >>
       /\ Len(fnResult) = 2 => fnResult[2] = fnArgs.lastKey

\* ========================================================================
\* Properties of the model operations
\* ========================================================================
\* C13: when the store has answered a get, the call has resolved without an
\* error; if the store had no item for the key nothing is returned and no
\* converter was invoked; if it had one, that item is returned with each
\* converter of the model invoked on it once, in registration order.
C13_GetAbsentOrConverted ==
    (scenario = "ops" /\ opKind = "get" /\ reply = "ok") =>
      /\ opResult = "resolved"
      /\ opThrown = NoError
      /\ IF opAnswer = << >>
         THEN /\ returned = << >>
              /\ opConvCalls = << >>
         ELSE /\ Len(returned) = 1
              /\ returned[1].item.id = opAnswer[1].id
              /\ returned[1].item.conv = ConvertersOf(opModel)
              /\ opConvCalls = [j \in 1..Len(ConvertersOf(opModel)) |->
                                  [converter |-> ConvertersOf(opModel)[j],
                                   on |-> opAnswer]]

\* A get on a model with converters for a key the store has no item for
\* has resolved.
C13_Witness ==
    /\ scenario = "ops"
    /\ opKind = "get"
    /\ ConvertersOf(opModel) # << >>
    /\ reply = "ok"
    /\ opAnswer = << >>
    /\ opResult = "resolved"

\* ========================================================================
\* Properties of the model builder
\* ========================================================================
\* The model or error of the materialization, once made.
BuildOutcome ==
    IF fnArgs.method = "build" THEN fnResult[1] ELSE fnResult[2]

BuildMaterialized ==
    /\ scenario = "build"
    /\ Len(fnResult) = (IF fnArgs.method = "build" THEN 1 ELSE 2)

\* The value of property k given nearest the materialization: by the
\* constructor call, else by the build/class call, else by the builder.
BuildSupplied(k) ==
    IF fnArgs.ctorOptions[k] # << >> THEN fnArgs.ctorOptions[k]
    ELSE IF fnArgs.options[k] # << >> THEN fnArgs.options[k]
    ELSE fnArgs.builder[k]

C15_DefinitionFrozenAfterBuild ==
    scenario = "builder" =>
      \A i \in 1..Len(bdModels) : bdHeap[bdModels[i].params] = bdModels[i].definedAs

\* ========================================================================
\* Properties of the table metrics
\* ========================================================================
\* getTableMetrics().get(t)?.[k] ?? 0: a table without an entry, or an entry
\* without the counter, has consumed nothing.
MetricOf(t) ==
    IF mtMetrics[t] = << >>
    THEN [rcu |-> 0, wcu |-> 0, cu |-> 0]
    ELSE [rcu |-> UnitsOf(mtMetrics[t][1].rcu),
          wcu |-> UnitsOf(mtMetrics[t][1].wcu),
          cu |-> UnitsOf(mtMetrics[t][1].cu)]

MtAllCompleted == \A i \in 1..MaxMetricOps : mtOps[i] \in {"ok", "failed"}

\* C16: for any interleaving of commands sharing one client, once all have
\* completed each table's rcu, wcu and cu equal the sums of the read, write
\* and combined units the successful outputs received since the last
\* clearTableMetrics() reported for the table; failed commands add nothing
\* and clearTableMetrics() resets every table.
C16_MetricsAreTheSumsReported ==
    (scenario = "metrics" /\ MtAllCompleted) =>
      \A t \in MetricTables : MetricOf(t) = mtReported[t]

\* Two commands that awaited the store at once and both succeeded after a
\* clearTableMetrics(), their units added up for one table.
C16_Witness ==
    /\ scenario = "metrics"
    /\ MtAllCompleted
    /\ mtMaxPending >= 2
    /\ mtClears = 1
    /\ mtReported["persons"].cu >= 3
    /\ mtReported["persons"].wcu = 2

\* ========================================================================
\* Properties of failing store calls
\* ========================================================================
\* C17: when the store call of get, scan, query, put, update, delete, a
\* batch execute or a transaction commit fails with an error, the operation
\* has sent exactly one request, it has failed with that same error,
\* unmodified, and it is not awaiting the store again.
C17_FailFast ==
    (scenario \in {"ops", "batchWrite", "batchGet", "txn"} /\ rejection # << >>) =>
      /\ requestsSent = 1
      /\ reply = "failed"
      /\ failure = rejection

\* The second execute() of a batch write, resubmitting what the first left
\* unprocessed, is rejected by the store.
C17_Witness ==
    /\ scenario = "batchWrite"
    /\ bwExecs = 2 /\ bwOks = 1
    /\ reply = "failed"
    /\ rejection = <<StoreError("TimeoutError")>>
    /\ bwRequestMap # << >>

\* ========================================================================
\* Properties of done
\* ========================================================================
\* The requests (keys) the next execute() of the statement would submit.
BatchToResubmit ==
    IF scenario = "batchWrite" THEN MapSize(bwRequestMap) ELSE MapSize(bgRequestMap)

BatchDoneReported == IF scenario = "batchWrite" THEN bwDone ELSE bgDone

\* C18: whenever an execute() of a batch get or a batch write returns, the
\* done it reports is true if and only if the request map of the statement
\* holds no unprocessed entry, so that the next execute() would have nothing
\* to resubmit.
C18_DoneIffNothingLeft ==
    [][(scenario \in {"batchWrite", "batchGet"} /\ reply = "pending" /\ reply' = "ok")
         => (BatchDoneReported' <=> BatchToResubmit' = 0)]_vars

\* A batch get whose second execute() fetched what the first had left
\* unprocessed and reported done.
C18_Witness ==
    /\ scenario = "batchGet"
    /\ bgExecs = 2
    /\ reply = "ok"
    /\ bgDone
    /\ bgRequestMap = << >>
    /\ Len(returned) >= 1

\* ========================================================================
\* Properties of the transaction's error queries
\* ========================================================================
\* C19: after any sequence of commit() calls, isTransactionCancelled() is
\* true only if the latest commit threw a transaction-cancelled error,
\* conditionalCheckFailed() is true only if the latest commit threw one with
\* at least one failed condition check, and both are false if the latest
\* commit succeeded.
C19_QueriesReportLatestCommit ==
    (scenario = "txn" /\ txCommits >= 1 /\ reply # "pending") =>
      /\ IsTransactionCancelled(txErr) => IsTransactionCancelled(txThrown)
      /\ ConditionalCheckFailedOf(txErr) => ConditionalCheckFailedOf(txThrown)
      /\ txResult = "resolved" =>
            ~IsTransactionCancelled(txErr) /\ ~ConditionalCheckFailedOf(txErr)

\* ========================================================================
\* Properties of concurrent atomicAction calls
\* ========================================================================
\* A step of call c that needs no error from the store or the transport:
\* its get is answered, its write is accepted or rejected on its condition,
\* or its delay ends.
AtomicProgress(c) ==
    \/ AtomicGetOk(c)
    \/ AtomicActOk(c)
    \/ AtomicActConditionFailed(c)
    \/ AtomicDelayDone(c)

\* Call c has sent the write conditioned on the item it fetched last and the
\* store has answered it.
WroteOnFetched(c) == invocations[c] >= 1 /\ pc[c] # "act"

\* The write of call c conditioned on the item it fetched last was accepted.
WonOnFetched(c) == Returned(c) /\ okFetched[c] = fetched[c].ver

C21_DefaultsIdempotent ==
    scenario = "defaults" =>
      /\ Len(fnResult) = 2 => fnResult[2] = fnResult[1]
      /\ Len(fnResult) >= 1 =>
            \A k \in DOMAIN fnArgs.item :
                fnArgs.item[k] # "undefined" => fnResult[1][k] = fnArgs.item[k]

\* An item with a null attribute and a missing one, both with a default,
\* converted twice: the missing one was assigned, the null one kept.
C21_Witness ==
    /\ scenario = "defaults"
    /\ Len(fnResult) = 2
    /\ "t" \in DOMAIN fnArgs.item /\ fnArgs.item["t"] = "null"
    /\ "u" \notin DOMAIN fnArgs.item
    /\ DOMAIN fnArgs.values = {"t", "u"}
    /\ fnResult[1]["u"] = "d" /\ fnResult[2]["t"] = "null"

\* ========================================================================
\* Properties of default values under a projection
\* ========================================================================
\* C30: when a read specifies a projection, the default values are assigned
\* only to the missing attributes within the projection, an attribute
\* outside it is left as the store returned it; without a projection every
\* missing attribute with a configured default is assigned.
C30_DefaultsWithinProjection ==
    (scenario = "defaults" /\ Len(fnResult) >= 1) =>
      \A k \in DOMAIN fnArgs.values :
          IF fnArgs.projection # << >> /\ k \notin fnArgs.projection[1]
          THEN /\ k \in DOMAIN fnResult[1] <=> k \in DOMAIN fnArgs.item
               /\ ItemGet(fnResult[1], k) = ItemGet(fnArgs.item, k)
          ELSE IsMissing(fnArgs.item, k) =>
                 (k \in DOMAIN fnResult[1] /\ fnResult[1][k] = fnArgs.values[k])

\* ========================================================================
\* Properties of createUpdateRequest
\* ========================================================================
\* The positions of the updaters whose output has attribute k.
UpdatersProducing(k) ==
    {i \in 1..Len(fnArgs.updaters) :
        k \in DOMAIN UpdaterOutput(fnArgs.updaters[i], fnArgs.attributes)}

\* C22: the attribute set compiled into an update request is the caller's
\* attributes overlaid with each updater's output in registration order: an
\* attribute some updater returns has the value the last such updater
\* returned, whatever the caller supplied, any other attribute has the
\* caller's value; the Key is the caller's key and ReturnValues is ALL_NEW.
C22_UpdaterPrecedence ==
    (scenario = "createUpdateRequest" /\ fnResult # << >>) =>
      LET request == fnResult[1]
      IN  /\ DOMAIN request.attributes =
                DOMAIN fnArgs.attributes \cup
                  {k \in ItemAttrs : UpdatersProducing(k) # {}}
          /\ \A k \in DOMAIN request.attributes :
                IF UpdatersProducing(k) # {}
                THEN request.attributes[k] =
                       UpdaterOutput(fnArgs.updaters[Max(UpdatersProducing(k))],
                                     fnArgs.attributes)[k]
                ELSE request.attributes[k] = fnArgs.attributes[k]
          /\ request.Key = fnArgs.key
          /\ request.ReturnValues = "ALL_NEW"

\* Two updaters returning t, registered after each other, on attributes in
\* which the caller supplied t.
C22_Witness ==
    /\ scenario = "createUpdateRequest"
    /\ fnResult # << >>
    /\ fnArgs.updaters = <<"touchBoth", "touch">>
    /\ "t" \in DOMAIN fnArgs.attributes
    /\ fnResult[1].attributes["t"] = 7
    /\ fnResult[1].attributes["u"] = 8

\* ========================================================================
\* Properties of delete
\* ========================================================================
\* C23: once the store has answered a delete, the call has resolved without
\* an error; when the store returned the old image, each converter of the
\* model was invoked on it and the delete triggers fired with the converted
\* item; when the key did not exist and no old image was returned, no
\* converter was invoked.
C23_DeleteOldImageOrNothing ==
    (scenario = "ops" /\ opKind = "delete" /\ reply = "ok") =>
      /\ opResult = "resolved"
      /\ opThrown = NoError
      /\ IF opAnswer = << >>
         THEN opConvCalls = << >>
         ELSE /\ opConvCalls = [j \in 1..Len(ConvertersOf(opModel)) |->
                                  [converter |-> ConvertersOf(opModel)[j],
                                   on |-> opAnswer]]
              /\ fired = TriggerCalls(opModel,
                                      << ConvertItem(opModel, opAnswer[1]) >>,
                                      "delete")

\* ========================================================================
\* Properties of the trigger invocation record
\* ========================================================================
\* The first argument of a trigger call has the key values of key.
CarriesKeyOf(arg, key, m) ==
    GetKeyValues(arg, KeyAttributes(m)) = GetKeyValues(key, KeyAttributes(m))

\* C24: every trigger invocation made by a model put, update or delete, a
\* batch write execute or a write-transaction commit carries the values of
\* the key attributes of the item written, the command of the write (put,
\* update or delete) and the model the write was made through.
C24_TriggerCarriesKey ==
    \A n \in 1..Len(fired) :
        LET f == fired[n]
        IN  /\ f.command \in {"put", "update", "delete"}
            /\ CASE scenario = "ops" ->
                      /\ f.command = opKind /\ f.model = opModel
                      /\ IF opKind = "delete"
                         THEN /\ f.item # << >>
                              /\ CarriesKeyOf(f.item[1], opArg[1], opModel)
                         ELSE CarriesKeyOf(f.item, opArg[1], opModel)
                 [] scenario = "batchWrite" ->
                      \E s \in MapSlots(bwSent) :
                          LET r == bwSent[s[1]].list[s[2]]
                          IN  /\ ParseRequest(r).command = f.command
                              /\ r.via = f.model
                              /\ CarriesKeyOf(f.item, r.body, f.model)
                 [] scenario = "txn" ->
                      \E i \in 1..Len(txSent) :
                          /\ ParseRequest(txSent[i]).command = f.command
                          /\ txSent[i].via = f.model
                          /\ CarriesKeyOf(f.item, txSent[i].body, f.model)
                 [] OTHER -> TRUE

\* ========================================================================
\* Properties of the item put returns
\* ========================================================================
\* C25 as stated: the item in put's result has the same attributes and
\* values as the Item sent to the store in the put request.
C25_AsStated ==
    (scenario = "put" /\ Len(fnResult) = 2) => fnResult[2].item = fnResult[1].Item

\* C25 (amended): the item in put's result is the Item sent to the store in
\* the put request with the model's converters applied to it: every
\* attribute the Item has a value for is returned with that value, and an
\* attribute the Item has no value for is returned with the default value
\* configured for it, if there is one, and as it is in the Item otherwise.
C25_PutReturnsConvertedItem ==
    (scenario = "put" /\ Len(fnResult) = 2) =>
      LET sentItem == fnResult[1].Item
          item == fnResult[2].item
      IN  \A k \in ItemAttrs :
            IF ~IsMissing(sentItem, k)
            THEN k \in DOMAIN item /\ item[k] = sentItem[k]
            ELSE IF k \in DOMAIN fnArgs.values
                 THEN k \in DOMAIN item /\ item[k] = fnArgs.values[k]
                 ELSE (k \in DOMAIN item <=> k \in DOMAIN sentItem)
                      /\ ItemGet(item, k) = ItemGet(sentItem, k)

\* A creator supplied t, the caller's item has no u and u has a default:
\* the item returned has the creator's t and the default u.
C25_Witness ==
    /\ scenario = "put"
    /\ Len(fnResult) = 2
    /\ fnArgs.outputs = <<[t |-> "c"]>>
    /\ "u" \notin DOMAIN fnArgs.item
    /\ "u" \in DOMAIN fnArgs.values /\ fnArgs.values["u"] = "d"
    /\ fnResult[2].item["t"] = "c"
    /\ fnResult[2].item["u"] = "d"
    /\ "u" \notin DOMAIN fnResult[1].Item

\* ========================================================================
\* Properties of isDynamoError
\* ========================================================================
\* C26: isDynamoError(err, kind) is true exactly when err is a store
\* service error whose name is the wire name of kind, and an error that is
\* of one kind is of no other kind.
C26_ClassifiedByName ==
    (scenario = "isDynamoError" /\ fnResult # << >>) =>
      /\ fnResult[1] <=> (fnArgs.err.service /\ fnArgs.err.name = DynamoErrorNames[fnArgs.name])
      /\ fnResult[1] =>
           \A other \in DynamoErrorKinds \ {fnArgs.name} :
               ~IsDynamoError(fnArgs.err, other)

\* The case of the test: a service error named ResourceNotFoundException is
\* a ResourceNotFound and is not a RequestLimitExceeded.
C26_Witness ==
    /\ scenario = "isDynamoError"
    /\ fnResult = <<TRUE>>
    /\ fnArgs.err = [service |-> TRUE, name |-> "ResourceNotFoundException"]
    /\ fnArgs.name = "ResourceNotFound"
    /\ ~IsDynamoError(fnArgs.err, "RequestLimitExceeded")


\* C27: a call of atomicAction is in a delay only when another get follows
\* the delay, that is when the attempt that failed was not the last one; a
\* call that failed with the exhaustion error after maxAttempts >= 1
\* conditional failures has been through maxAttempts - 1 delays.
C27_DelayOnlyBeforeFetch ==
    \A c \in Calls :
        /\ pc[c] = "delay" => LoopTest(attempt[c] + 1, EffectiveMaxAttempts(c))
        /\ (pc[c] = "threw" /\ thrown[c] = ExhaustedError
              /\ EffectiveMaxAttempts(c) >= 1) =>
               delays[c] = EffectiveMaxAttempts(c) - 1


\* C28: while the action of a call runs, it was handed the item of a get
\* sent in this attempt (one get and one invocation per attempt), and the
\* conditions are conditionAttribute = the fetched value when the fetched
\* item exists and has the attribute, whatever it holds, and
\* attributeNotExists(conditionAttribute) otherwise.
C28_ConditionOnFetchedValue ==
    \A c \in Calls :
        pc[c] = "act" =>
            /\ fetches[c] = attempt[c] + 1
            /\ invocations[c] = attempt[c] + 1
            /\ AtomicConditions(fetched[c]) =
                 IF fetched[c].exists /\ fetched[c].ver # NoVer
                 THEN [op |-> "eq", value |-> fetched[c].ver]
                 ELSE [op |-> "attributeNotExists", value |-> NoVer]


\* ========================================================================
\* C29: when the store has accepted the transaction of a commit, the commit
\* resolves, whatever put, update, delete and condition-check sub-requests
\* it sent: it does not fail with the invalid-request error.
C29_AcceptedCommitResolves ==
    (scenario = "txn" /\ reply = "ok") =>
        /\ txResult = "resolved"
        /\ txThrown # InvalidRequestError


\* ========================================================================
\* C38: a call with maxAttempts <= 0 sends no get, never invokes the action
\* and fails with the exhaustion error; for any maxAttempts the gets sent
\* are as many as the invocations of the action, or one more while a get is
\* awaited or after a get failed, and neither exceeds max(maxAttempts, 0).
C38_AttemptsBounded ==
    \A c \in Calls :
        LET max == IF EffectiveMaxAttempts(c) > 0 THEN EffectiveMaxAttempts(c) ELSE 0
        IN  /\ (EffectiveMaxAttempts(c) <= 0 /\ pc[c] # "idle") =>
                  /\ fetches[c] = 0 /\ invocations[c] = 0
                  /\ pc[c] = "threw" /\ thrown[c] = ExhaustedError
            /\ invocations[c] <= fetches[c]
            /\ fetches[c] <= invocations[c] + 1
            /\ fetches[c] = invocations[c] + 1 =>
                  \/ pc[c] = "get"
                  \/ pc[c] = "threw" /\ raised[c] # NoError /\ thrown[c] = raised[c]
            /\ fetches[c] <= max
            /\ invocations[c] <= max

\* One call was made with maxAttempts = 0 and failed at once; the other one's
\* second get failed.
C38_Witness ==
    \E c \in Calls : \E d \in Calls \ {c} :
        /\ maxAttemptsParam[c] = <<0>>
        /\ pc[c] = "threw" /\ thrown[c] = ExhaustedError /\ fetches[c] = 0
        /\ maxAttemptsParam[d] = <<2>>
        /\ pc[d] = "threw" /\ raised[d] # NoError
        /\ fetches[d] = 2 /\ invocations[d] = 1


\* ========================================================================
\* C37: whatever number of pages scanIterator or queryIterator has consumed,
\* the caller's params object holds what it held when the iterator was
\* created: its pageToken is not the token the iterator has advanced to.
C37_ParamsUntouched ==
    scenario = "iter" => itParams = [pageToken |-> << >>]

\* Two pages were requested, the second with the token of the first page's
\* last key, and the caller's params still have no pageToken.
C37_Witness ==
    /\ scenario = "iter"
    /\ Len(itRequests) >= 2
    /\ itToken # << >>
    /\ itRequests[2] = itToken
    /\ itParams.pageToken = << >>


\* ========================================================================
\* C31: once the triggers of a confirmed write have been dispatched, every
\* trigger registered on the model has been invoked exactly once for the
\* write, in registration order, whatever the triggers before it did.
C31_EveryTriggerRuns ==
    (scenario = "triggers" /\ fnResult # << >>) =>
        fnResult[1].fired = TriggerCalls(fnArgs.model, fnArgs.item, fnArgs.command)


\* ========================================================================
\* C35: when the store call of a batch execute() fails, the statement holds
\* the requests it held when it sent the call (for a batch write, the
\* requests it sent), no trigger has fired and no item is returned.
C35_FailedExecuteKeepsRequests ==
    [][(scenario \in {"batchWrite", "batchGet"}
          /\ reply = "pending" /\ reply' = "failed") =>
         /\ bwRequestMap' = bwRequestMap
         /\ bgRequestMap' = bgRequestMap
         /\ scenario = "batchWrite" => bwRequestMap' = bwSent
         /\ fired' = << >>
         /\ returned' = << >>]_vars

\* The second execute() of a batch write, which resubmitted the request the
\* first one left unprocessed, was rejected: the request is still held.
C35_Witness ==
    /\ scenario = "batchWrite"
    /\ bwOks = 1 /\ bwExecs = 2
    /\ reply = "failed"
    /\ bwRequestMap # << >>
    /\ bwRequestMap = bwSent
    /\ fired = << >>


\* ========================================================================
\* Properties of a batch write over all its rounds
\* ========================================================================
\* How many elements of a sequence satisfy: being request r (added), being an
\* invocation of trigger tr for r (fired), being a result item for r (items).
BwTimesAdded(r) ==
    Cardinality({n \in 1..Len(bwHistory.added) : bwHistory.added[n] = r})

BwTimesFired(r, tr) ==
    Cardinality({n \in 1..Len(bwHistory.fired) :
                    /\ bwHistory.fired[n].trigger = tr
                    /\ bwHistory.fired[n].model = r.via
                    /\ bwHistory.fired[n].command = BwCommandOf(r)
                    /\ bwHistory.fired[n].item = r.body})

BwTimesReported(r) ==
    Cardinality({n \in 1..Len(bwHistory.items) :
                    /\ bwHistory.items[n].model = r.via
                    /\ bwHistory.items[n].command = BwCommandOf(r)
                    /\ bwHistory.items[n].key = r.body})

C36_TriggersOfTheAddingModel ==
    scenario = "batchWrite" =>
      \A n \in 1..Len(fired) :
          \E s \in MapSlots(bwSent) :
              LET r == bwSent[s[1]].list[s[2]]
              IN  /\ fired[n].model = r.via
                  /\ \E x \in 1..Len(TriggersOf(r.via)) :
                        TriggersOf(r.via)[x] = fired[n].trigger
                  /\ fired[n].command = BwCommandOf(r)
                  /\ fired[n].item = r.body


\* ========================================================================
\* Properties of the batch iterators
\* ========================================================================
\* The items of rounds i.., in order.
RECURSIVE BiItemsFrom(_, _)
BiItemsFrom(rounds, i) ==
    IF i > Len(rounds) THEN << >>
    ELSE rounds[i].items \o BiItemsFrom(rounds, i + 1)

\* The safety part of C32: the iterator has yielded the items of its rounds in order, all of
\* them but those of the current round still to come, and all of them
\* whenever it is between rounds or has returned; every round but the
\* latest reported done = false; the iterator has returned only after a
\* round that reported done = true, and after a finished round that
\* reported done = false it waits and then executes again.
BiRoundsUntilDone ==
    scenario = "batchIterator" =>
      /\ biYielded \o biBuffer = BiItemsFrom(biRounds, 1)
      /\ biPc \in {"executing", "delaying", "done"} => biBuffer = << >>
      /\ \A r \in 1..(Len(biRounds) - 1) : ~biRounds[r].done
      /\ biPc = "done" => (biRounds # << >> /\ biRounds[Len(biRounds)].done)
      /\ biPc = "delaying" =>
            /\ ~biRounds[Len(biRounds)].done
            /\ Len(biWaits) = Len(biRounds)
            /\ Len(biRounds) < MaxRounds => ENABLED BiDelayDone
      /\ (biPc = "suspended" /\ biBuffer = << >>) => ENABLED BiRoundEndNext
      /\ biPc \in {"done", "threw"} => ~ENABLED NextBatchIterator

\* The latest round reported done = true.
BiDoneReported ==
    /\ scenario = "batchIterator"
    /\ biRounds # << >>
    /\ biRounds[Len(biRounds)].done

C33_DelayDoubles ==
    scenario = "batchIterator" =>
      \A n \in 1..Len(biWaits) :
          /\ biWaits[n].bound = 100 * 2^(n - 1)
          /\ 0 <= biWaits[n].drawn
          /\ biWaits[n].drawn < 100 * 2^(n - 1)

\* The delay after the third round was drawn from [0, 400).
C33_Witness ==
    /\ scenario = "batchIterator"
    /\ Len(biWaits) = 3
    /\ biWaits[1].bound = 100 /\ biWaits[2].bound = 200
    /\ biWaits[3].bound = 400 /\ biWaits[3].drawn = 399

====
